---- MODULE Spec2Model ----
(***************************************************************************)
(* A model of the Vault Protocol SDK: the client factory, the chain and    *)
(* contract configuration, the VaultManager and TimeManager wrappers over  *)
(* the VaultFactory and TimeManager contracts, the AttestationClient, the  *)
(* AIVaultManager, the StorageClient, the EventMonitor and the in-memory   *)
(* CrossChainClient.                                                       *)
(*                                                                         *)
(* The module holds one specification per subsystem:                       *)
(*   SpecClient  createVaultClient applied to every configuration          *)
(*   Spec        VaultManager / TimeManager calls of one caller, one step  *)
(*               per await                                                 *)
(*   SpecCreate  createVault calls of two callers, interleaved at awaits   *)
(*   SpecTime    the TimeManager calls of one caller, with the time        *)
(*               configurations callers pass                               *)
(*   SpecOwner   getVault and getVaultsByOwner over vaults created and     *)
(*               deactivated                                               *)
(*   SpecAttest  AttestationClient.submitAttestation and its readers       *)
(*   SpecGuard   every AttestationClient and AIVaultManager operation, on  *)
(*               clients with and without a contract address               *)
(*   SpecAI      the AIVaultManager operations over the AI states the      *)
(*               contract answers with                                     *)
(*   SpecStorage StorageClient: uploads, their mock fallbacks, retrieval   *)
(*   SpecCross   CrossChainClient and its pending-message map              *)
(*   SpecMonitor EventMonitor: sockets, subscriptions, incoming messages   *)
(***************************************************************************)
EXTENDS Integers, Sequences, FiniteSets, TLC

VARIABLES
  factoryCall,     \* client factory: the last createVaultClient call, its config and outcome
  ccClient,        \* CrossChainClient.client (NoClient: the legacy string constructor's null)
  pendingMessages, \* CrossChainClient.pendingMessages: messageId -> [message, status]
  now,             \* Date.now(), in milliseconds
  ccLast,          \* the last CrossChainClient call: operation, arguments, outcome
  pendingBefore,   \* pendingMessages as the last CrossChainClient call found it
  ccReturned,      \* every messageId a sendMessage call has returned so far
  ccCleared,       \* every messageId clearPendingMessage has been called with so far
  ccSends,         \* number of messages stored so far
  vaultCount,      \* VaultFactory.vaultCount
  vaults,          \* VaultFactory.vaults: id -> [vaultAddress, owner, cid, isActive], ids from 0
  vaultConfigs,    \* TimeManager.vaultConfigs: vault address -> time configuration
  call,            \* the SDK calls in progress: slot -> call record
  attestation,     \* the AttestationClient: its client and its contractAddress
  hubRequests,     \* AttestationHub: the requests it holds, in the order it took them
  attCall,         \* the AttestationClient call in progress
  aiManager,       \* the AIVaultManager: its client and its contractAddress
  aiCall,          \* the AIVaultManager call in progress
  storageConfig,   \* StorageClient.config: provider and the three credentials
  stCall,          \* the StorageClient call in progress
  uploaded,        \* the UploadResult the last finished upload returned
  listeners,       \* EventMonitor.listeners: key -> callbacks in insertion order
  wsConnection,    \* EventMonitor.wsConnection: "null", or the state of the socket it holds
  sockets,         \* the open WebSockets the monitor created, each with its onmessage
  subscribed,      \* the <<key, callback>> pairs subscribed and not unsubscribed since
  subscriptions,   \* the subscribe calls whose unsubscribe function the caller holds
  evLast           \* the last EventMonitor step: operation, event, callbacks invoked

varsClient == <<factoryCall>>

varsCross ==
  <<ccClient, pendingMessages, now, ccLast, pendingBefore, ccReturned, ccCleared, ccSends>>

varsChain == <<vaultCount, vaults, vaultConfigs>>

varsVault == <<varsChain, call>>

varsAttest == <<attestation, hubRequests, attCall>>

varsAI == <<aiManager, aiCall>>

varsStorage == <<storageConfig, stCall, uploaded>>

varsMonitor == <<listeners, wsConnection, sockets, subscribed, subscriptions, evLast>>

vars == <<varsClient, varsCross, varsVault, varsAttest, varsAI, varsStorage, varsMonitor>>

\* What the calls of one subsystem leave alone: the variables of the others.
ClientFrame == UNCHANGED <<varsCross, varsVault, varsAttest, varsAI, varsStorage, varsMonitor>>

CrossFrame == UNCHANGED <<varsClient, varsVault, varsAttest, varsAI, varsStorage, varsMonitor>>

VaultFrame == UNCHANGED <<varsClient, varsCross, varsAttest, varsAI, varsStorage, varsMonitor>>

AttestFrame == UNCHANGED <<varsClient, varsCross, varsVault, varsAI, varsStorage, varsMonitor>>

AIFrame == UNCHANGED <<varsClient, varsCross, varsVault, varsAttest, varsStorage, varsMonitor>>

StorageFrame == UNCHANGED <<varsClient, varsCross, varsVault, varsAttest, varsAI, varsMonitor>>

MonitorFrame == UNCHANGED <<varsClient, varsCross, varsVault, varsAttest, varsAI, varsStorage>>

(***************************************************************************)
(* Absent values. JavaScript's undefined is the string "undefined" for     *)
(* addresses, keys and URLs.                                               *)
(***************************************************************************)
Undefined == "undefined"

ZERO_ADDRESS == "0x0000000000000000000000000000000000000000"

(***************************************************************************)
(* config/chains.ts                                                        *)
(***************************************************************************)
CHAINS == {1, 56, 97, 137, 204, 5611, 42161}

SUPPORTED_CHAIN_IDS == {1, 56, 97, 137, 204, 5611, 42161}

\* The Chain object: its id and its first default RPC URL (every chain of CHAINS has one).
ChainRecord(chainId) == [id |-> chainId, rpcUrl |-> "default-rpc"]

NoChain == [id |-> -1, rpcUrl |-> Undefined]

getChain(chainId) == IF chainId \in CHAINS THEN ChainRecord(chainId) ELSE NoChain

(***************************************************************************)
(* config/contracts.ts                                                     *)
(***************************************************************************)
BSC_TESTNET_CONTRACTS ==
  [VaultManager |-> "0x116865F62E1714D9B512Fd9E4f35e6fDb53D019C",
   VaultTimeManager |-> "0x68e41639B0c5C56F6E6b0f0Cf9612acac089ff4D",
   AccessControl |-> ZERO_ADDRESS,
   NotificationOracle |-> ZERO_ADDRESS,
   AIConsensus |-> Undefined,
   CrossChainBridge |-> Undefined,
   AIVaultManager |-> Undefined,
   AttestationHub |-> Undefined]

OPBNB_MAINNET_CONTRACTS ==
  [VaultManager |-> ZERO_ADDRESS,
   VaultTimeManager |-> ZERO_ADDRESS,
   AccessControl |-> ZERO_ADDRESS,
   NotificationOracle |-> ZERO_ADDRESS,
   AIConsensus |-> Undefined,
   CrossChainBridge |-> Undefined,
   AIVaultManager |-> Undefined,
   AttestationHub |-> Undefined]

OPBNB_TESTNET_CONTRACTS ==
  [VaultManager |-> ZERO_ADDRESS,
   VaultTimeManager |-> ZERO_ADDRESS,
   AccessControl |-> ZERO_ADDRESS,
   NotificationOracle |-> ZERO_ADDRESS,
   AIConsensus |-> Undefined,
   CrossChainBridge |-> Undefined,
   AIVaultManager |-> Undefined,
   AttestationHub |-> Undefined]

CONTRACTS_BY_CHAIN ==
  [c \in {97, 204, 5611} |->
     IF c = 97 THEN BSC_TESTNET_CONTRACTS
     ELSE IF c = 204 THEN OPBNB_MAINNET_CONTRACTS
     ELSE OPBNB_TESTNET_CONTRACTS]

\* The value of CONTRACTS_BY_CHAIN[chainId] for a key the record does not hold.
NoContracts ==
  [VaultManager |-> Undefined,
   VaultTimeManager |-> Undefined,
   AccessControl |-> Undefined,
   NotificationOracle |-> Undefined,
   AIConsensus |-> Undefined,
   CrossChainBridge |-> Undefined,
   AIVaultManager |-> Undefined,
   AttestationHub |-> Undefined]

getContractAddresses(chainId) ==
  IF chainId \in DOMAIN CONTRACTS_BY_CHAIN THEN CONTRACTS_BY_CHAIN[chainId] ELSE NoContracts

\* hasDeployedContracts without its test of the VaultManager address.
hasDeployedContracts_Configured(chainId) == chainId \in DOMAIN CONTRACTS_BY_CHAIN

hasDeployedContracts(chainId) ==
  IF chainId \notin DOMAIN CONTRACTS_BY_CHAIN THEN FALSE
  ELSE CONTRACTS_BY_CHAIN[chainId].VaultManager # ZERO_ADDRESS

(***************************************************************************)
(* client.ts: the client factory                                           *)
(***************************************************************************)
\* The configurations createVaultClient is applied to: the seven listed chains, the
\* three further chains of the README's table and one chain nobody lists.
ChainIdInputs == SUPPORTED_CHAIN_IDS \cup {10, 8453, 999}

RpcUrlInputs == {Undefined, "custom-rpc"}

PrivateKeyInputs == {Undefined, "pk1"}

WalletClientInputs == {Undefined, "externalWallet"}

AccountInputs == {Undefined, "0xB"}

VaultClientConfig ==
  [chainId : ChainIdInputs, rpcUrl : RpcUrlInputs, privateKey : PrivateKeyInputs,
   walletClient : WalletClientInputs, account : AccountInputs]

\* viem's privateKeyToAccount: the address of the key.
privateKeyToAccount(privateKey) == "0xA"

NoClient ==
  [chainId |-> -1, chain |-> NoChain, contracts |-> NoContracts, publicClient |-> Undefined,
   walletClient |-> Undefined, account |-> Undefined, canWrite |-> FALSE]

\* createVaultClient: [error, client]; error is "" when the client is returned.
createVaultClient(config) ==
  LET chain == getChain(config.chainId)
      contracts == getContractAddresses(config.chainId)
      rpc == IF config.rpcUrl # Undefined THEN config.rpcUrl ELSE chain.rpcUrl
      walletClient ==
        IF config.privateKey # Undefined THEN "privateKeyWallet"
        ELSE IF config.walletClient # Undefined THEN config.walletClient
        ELSE Undefined
      account ==
        IF config.privateKey # Undefined THEN privateKeyToAccount(config.privateKey)
        ELSE IF config.walletClient # Undefined THEN config.account
        ELSE Undefined
  IN  IF chain = NoChain
        THEN [error |-> "Unsupported chain ID", client |-> NoClient]
      ELSE IF contracts = NoContracts
        THEN [error |-> "No contract addresses configured for chain ID", client |-> NoClient]
      ELSE IF rpc = Undefined
        THEN [error |-> "No RPC URL available for chain", client |-> NoClient]
      ELSE [error |-> "",
            client |-> [chainId |-> config.chainId,
                        chain |-> chain,
                        contracts |-> contracts,
                        publicClient |-> rpc,
                        walletClient |-> walletClient,
                        account |-> account,
                        canWrite |-> (walletClient # Undefined)]]

\* The type guard canWrite(client).
canWrite(client) ==
  client.canWrite /\ client.walletClient # Undefined /\ client.account # Undefined

NoCall == [called |-> FALSE, config |-> [chainId |-> -1, rpcUrl |-> Undefined,
           privateKey |-> Undefined, walletClient |-> Undefined, account |-> Undefined],
           error |-> "", client |-> NoClient]

InitClient == factoryCall = NoCall

\* One application of createVaultClient to a configuration.
CreateVaultClient(config) ==
  LET r == createVaultClient(config)
  IN  /\ factoryCall' = [called |-> TRUE, config |-> config, error |-> r.error,
                           client |-> r.client]
      /\ ClientFrame

NextClient == \E config \in VaultClientConfig : CreateVaultClient(config)


(***************************************************************************)
(* core/CrossChainClient.ts                                                *)
(***************************************************************************)
\* Bounds of the cross-chain specification.
MaxClock == 1

MaxSends == 2

supportedChains == {1, 56, 97, 137, 204, 5611, 42161, 10, 8453, 43114}

isSupportedChain(chainId) == chainId \in supportedChains

\* Math.random().toString(36).substring(7): the suffix of a message id.
RandomSuffixes == {"k3x9q", "p0z7m"}

\* `lz-${sourceChain}-${destChain}-${Date.now()}-${suffix}`: the four parts determine
\* the string and the string its four parts (no part holds a '-').
MessageIdOf(sourceChain, destChain, t, suffix) == <<sourceChain, destChain, t, suffix>>

NoId == <<-1, -1, -1, "">>

\* A message id no sendMessage call returns.
UnknownId == <<97, 137, -5, "zzzzz">>

NoData == [timestamp |-> -1, syncType |-> "none"]

NoMessage ==
  [sourceChain |-> -1, destChain |-> -1, vaultId |-> "", operation |-> "", data |-> NoData]

SourceChainInputs == {97, 999}

DestChainInputs == {137, 999}

\* The messages callers hand to sendMessage.
MessageInputs ==
  [sourceChain : SourceChainInputs, destChain : DestChainInputs, vaultId : {"vault-1"},
   operation : {"update"}, data : {NoData}]

EmptyMap == [k \in {} |-> k]

MapSet(m, k, v) == [x \in (DOMAIN m) \cup {k} |-> IF x = k THEN v ELSE m[x]]

MapDelete(m, k) == [x \in (DOMAIN m) \ {k} |-> m[x]]

NotFoundStatus ==
  [sent |-> FALSE, received |-> FALSE, processed |-> FALSE, timestamp |-> -1,
   error |-> "Message not found"]

\* sendMessage with the destination chain validated before the source chain.
sendMessage_DestFirst(pm, message, t, r) ==
  IF ~isSupportedChain(message.destChain)
    THEN [error |-> "Destination chain is not supported", messageId |-> NoId, pending |-> pm]
  ELSE IF ~isSupportedChain(message.sourceChain)
    THEN [error |-> "Source chain is not supported", messageId |-> NoId, pending |-> pm]
  ELSE LET messageId == MessageIdOf(message.sourceChain, message.destChain, t, r)
           status == [sent |-> TRUE, received |-> FALSE, processed |-> FALSE,
                      timestamp |-> t, error |-> Undefined]
       IN  [error |-> "", messageId |-> messageId,
            pending |-> MapSet(pm, messageId, [message |-> message, status |-> status])]

\* sendMessage(message) at clock t with random suffix r on the map pm:
\* [error, messageId, pending]; error is "" when the id is returned.
sendMessage(pm, message, t, r) ==
  IF ~isSupportedChain(message.sourceChain)
    THEN [error |-> "Source chain is not supported", messageId |-> NoId, pending |-> pm]
  ELSE IF ~isSupportedChain(message.destChain)
    THEN [error |-> "Destination chain is not supported", messageId |-> NoId, pending |-> pm]
  ELSE LET messageId == MessageIdOf(message.sourceChain, message.destChain, t, r)
           status == [sent |-> TRUE, received |-> FALSE, processed |-> FALSE,
                      timestamp |-> t, error |-> Undefined]
       IN  [error |-> "", messageId |-> messageId,
            pending |-> MapSet(pm, messageId, [message |-> message, status |-> status])]

getMessageStatus(pm, messageId) ==
  IF messageId \in DOMAIN pm THEN pm[messageId].status ELSE NotFoundStatus

getPendingMessages(pm) == DOMAIN pm

clearPendingMessage(pm, messageId) == MapDelete(pm, messageId)

\* syncVault with the client looked at before the target chain is validated.
syncVault_ClientFirst(client, pm, vaultId, targetChain, t, r) ==
  IF client = NoClient
    THEN [error |-> "", result |-> FALSE, messageId |-> NoId, pending |-> pm]
  ELSE IF ~isSupportedChain(targetChain)
    THEN [error |-> "Target chain is not supported", result |-> FALSE,
          messageId |-> NoId, pending |-> pm]
  ELSE [error |-> "", result |-> TRUE,
        messageId |-> MessageIdOf(client.chainId, targetChain, t, r),
        pending |-> MapSet(pm, MessageIdOf(client.chainId, targetChain, t, r),
                      [message |-> [sourceChain |-> client.chainId, destChain |-> targetChain,
                                    vaultId |-> vaultId, operation |-> "sync",
                                    data |-> [timestamp |-> t, syncType |-> "full"]],
                       status |-> [sent |-> TRUE, received |-> FALSE, processed |-> FALSE,
                                   timestamp |-> t, error |-> Undefined]])]

\* syncVault(vaultId, targetChain): [error, result, messageId, pending].
syncVault(client, pm, vaultId, targetChain, t, r) ==
  IF ~isSupportedChain(targetChain)
    THEN [error |-> "Target chain is not supported", result |-> FALSE,
          messageId |-> NoId, pending |-> pm]
  ELSE IF client = NoClient
    THEN [error |-> "", result |-> FALSE, messageId |-> NoId, pending |-> pm]
  ELSE LET message == [sourceChain |-> client.chainId, destChain |-> targetChain,
                       vaultId |-> vaultId, operation |-> "sync",
                       data |-> [timestamp |-> t, syncType |-> "full"]]
           sent == sendMessage(pm, message, t, r)
       IN  IF sent.error = ""
             THEN [error |-> "", result |-> TRUE, messageId |-> sent.messageId,
                   pending |-> sent.pending]
             ELSE [error |-> "", result |-> FALSE, messageId |-> NoId, pending |-> pm]

\* estimateFee(destChain, payloadSize) in units of 10^13 wei: 0.001 + 0.00001 * size.
estimateFee(destChain, payloadSize) == 100 + payloadSize

\* The clients a CrossChainClient is built on: the read-only client of every chain
\* createVaultClient returns a client for, a signing client, and the legacy
\* constructor's null client.
CrossClients ==
  {createVaultClient(c).client :
     c \in {c \in VaultClientConfig :
               /\ createVaultClient(c).error = ""
               /\ c.rpcUrl = Undefined /\ c.walletClient = Undefined /\ c.account = Undefined
               /\ (c.privateKey # Undefined => c.chainId = 97)}}
  \cup {NoClient}

NoCcCall ==
  [op |-> "none", message |-> NoMessage, targetChain |-> -1, messageId |-> NoId,
   error |-> "", result |-> FALSE, status |-> NotFoundStatus, fee |-> 0]

\* The cross-chain variables before any CrossChainClient call.
CrossFresh ==
  /\ pendingMessages = EmptyMap
  /\ now = 0
  /\ ccLast = NoCcCall
  /\ pendingBefore = EmptyMap
  /\ ccReturned = {}
  /\ ccCleared = {}
  /\ ccSends = 0

InitCross == ccClient \in CrossClients /\ CrossFresh

\* The cross-chain variables in the specifications of the other subsystems.
CrossIdle == ccClient = NoClient /\ CrossFresh

\* Time passes between calls.
Tick ==
  /\ now < MaxClock
  /\ now' = now + 1
  /\ UNCHANGED <<ccClient, pendingMessages, ccLast, pendingBefore, ccReturned, ccCleared, ccSends>>
  /\ CrossFrame

SendMessage(message, r) ==
  LET out == sendMessage(pendingMessages, message, now, r)
  IN  /\ (out.error = "") => ccSends < MaxSends
      /\ pendingMessages' = out.pending
      /\ pendingBefore' = pendingMessages
      /\ ccLast' = [NoCcCall EXCEPT !.op = "sendMessage", !.message = message,
                                    !.messageId = out.messageId, !.error = out.error]
      /\ ccReturned' = IF out.error = "" THEN ccReturned \cup {out.messageId} ELSE ccReturned
      /\ ccSends' = IF out.error = "" THEN ccSends + 1 ELSE ccSends
      /\ UNCHANGED <<ccClient, now, ccCleared>>
      /\ CrossFrame
  /\ CrossFrame

GetMessageStatus(messageId) ==
  /\ pendingBefore' = pendingMessages
  /\ ccLast' = [NoCcCall EXCEPT !.op = "getMessageStatus", !.messageId = messageId,
                                !.status = getMessageStatus(pendingMessages, messageId)]
  /\ UNCHANGED <<ccClient, pendingMessages, now, ccReturned, ccCleared, ccSends>>
  /\ CrossFrame

SyncVault(targetChain, r) ==
  LET out == syncVault(ccClient, pendingMessages, "vault-1", targetChain, now, r)
  IN  /\ out.result => ccSends < MaxSends
      /\ pendingMessages' = out.pending
      /\ pendingBefore' = pendingMessages
      /\ ccLast' = [NoCcCall EXCEPT !.op = "syncVault", !.targetChain = targetChain,
                                    !.messageId = out.messageId, !.error = out.error,
                                    !.result = out.result]
      /\ ccReturned' = IF out.result THEN ccReturned \cup {out.messageId} ELSE ccReturned
      /\ ccSends' = IF out.result THEN ccSends + 1 ELSE ccSends
      /\ UNCHANGED <<ccClient, now, ccCleared>>
      /\ CrossFrame
  /\ CrossFrame

ClearPendingMessage(messageId) ==
  /\ pendingMessages' = clearPendingMessage(pendingMessages, messageId)
  /\ pendingBefore' = pendingMessages
  /\ ccLast' = [NoCcCall EXCEPT !.op = "clearPendingMessage", !.messageId = messageId]
  /\ ccCleared' = ccCleared \cup {messageId}
  /\ UNCHANGED <<ccClient, now, ccReturned, ccSends>>
  /\ CrossFrame

EstimateFee(destChain, payloadSize) ==
  /\ pendingBefore' = pendingMessages
  /\ ccLast' = [NoCcCall EXCEPT !.op = "estimateFee", !.targetChain = destChain,
                                !.fee = estimateFee(destChain, payloadSize)]
  /\ UNCHANGED <<ccClient, pendingMessages, now, ccReturned, ccCleared, ccSends>>
  /\ CrossFrame

\* The ids callers ask about: every id returned so far and one never returned.
MessageIdInputs == ccReturned \cup {UnknownId}

NextCross ==
  \/ Tick
  \/ \E message \in MessageInputs, r \in RandomSuffixes : SendMessage(message, r)
  \/ \E messageId \in MessageIdInputs : GetMessageStatus(messageId)
  \/ \E targetChain \in DestChainInputs, r \in RandomSuffixes : SyncVault(targetChain, r)
  \/ \E messageId \in MessageIdInputs : ClearPendingMessage(messageId)
  \/ \E destChain \in DestChainInputs : EstimateFee(destChain, 100)

(***************************************************************************)
(* The VaultFactory and TimeManager contracts, as their ABIs name them and *)
(* as the SDK reads and writes them                                        *)
(***************************************************************************)
\* Bound: the factory holds at most this many vaults.
MaxVaults == 2

\* An absent number (an optional field that is not given).
UndefNum == -1

\* JavaScript truthiness of an optional number and of an optional string.
TruthyNum(n) == n # UndefNum /\ n # 0

TruthyStr(x) == x # Undefined /\ x # ""

\* enum ReleaseTypeContract
ReleaseTypeContract_NONE == 0

ReleaseTypeContract_SCHEDULED == 1

ReleaseTypeContract_DEADMAN == 2

ReleaseTypeContract_HYBRID == 3

\* The address of the vault the factory creates under an id.
VaultAddressOf(id) == "0xVault" \o ToString(id)

VaultAddresses == {VaultAddressOf(i) : i \in 0..(MaxVaults - 1)} \cup {ZERO_ADDRESS}

\* The tuple vaults(id) returns for an id the factory has not created.
ZeroVault ==
  [id |-> 0, vaultAddress |-> ZERO_ADDRESS, owner |-> ZERO_ADDRESS,
   encryptedContentCID |-> "", isActive |-> FALSE]

\* The tuple vaultConfigs(address) returns for a vault nobody configured.
ZeroTimeConfig ==
  [releaseType |-> ReleaseTypeContract_NONE, scheduledReleaseTime |-> 0,
   deadmanDuration |-> 0, lastCheckIn |-> 0, isActive |-> FALSE]

\* The block timestamps (seconds) a transaction is mined at.
BlockTimes == {7}

\* The contract read vaults(id).
ReadVaultsView(vs, id) == IF id \in 0..(Len(vs) - 1) THEN vs[id + 1] ELSE ZeroVault

(***************************************************************************)
(* core/VaultManager.ts and core/TimeManager.ts: the calls, one step per   *)
(* await                                                                   *)
(***************************************************************************)
VaultWriteOps == {"createVault", "updateVault", "uploadContent", "unlockVault"}

TimeWriteOps ==
  {"configureScheduledRelease", "configureDeadmanSwitch", "configureHybridRelease",
   "checkIn", "triggerRelease", "deactivate", "setUnlockTime"}

ConfigureOps ==
  {"configureScheduledRelease", "configureDeadmanSwitch", "configureHybridRelease",
   "setUnlockTime"}

VaultReadOps == {"getVault"}

TimeReadOps == {"getTimeUntilUnlock", "getLastCheckIn", "getTimeConfig"}

AllOps == VaultWriteOps \cup TimeWriteOps \cup VaultReadOps

\* A vaultId argument: a numeric string, or (TimeManager) a 42-character 0x address.
IdRef(n) == [kind |-> "id", n |-> n, address |-> ""]

AddrRef(a) == [kind |-> "addr", n |-> -1, address |-> a]

NoRef == [kind |-> "none", n |-> -1, address |-> ""]

\* A vaultId argument that is not a numeric string, such as 'abc'.
TextRef == [kind |-> "text", n |-> -1, address |-> ""]

\* Partial<VaultConfig> and TimeManagerConfig, the fields the calls read.
NoConfig ==
  [releaseType |-> Undefined, unlockTime |-> UndefNum, checkInPeriod |-> UndefNum,
   scheduledTime |-> UndefNum, deadmanDuration |-> UndefNum]

NoVaultConfig ==
  [id |-> -1, owner |-> Undefined, releaseType |-> Undefined, unlockTime |-> UndefNum,
   checkInPeriod |-> UndefNum, lastCheckIn |-> UndefNum]

\* What getTimeConfig returns.
NoTimeConfig ==
  [releaseType |-> Undefined, scheduledTime |-> UndefNum, deadmanDuration |-> UndefNum,
   lastCheckIn |-> UndefNum, isActive |-> FALSE]

NoRet ==
  [kind |-> "none", bool |-> FALSE, vault |-> NoVaultConfig, cid |-> "", num |-> UndefNum,
   time |-> NoTimeConfig, list |-> << >>]

IdleCall ==
  [op |-> "none", client |-> NoClient, ref |-> NoRef, config |-> NoConfig,
   pc |-> "idle", status |-> "idle", error |-> "", log |-> << >>,
   vaultId |-> -1, vaultData |-> ZeroVault, vaultAddress |-> "",
   vault |-> NoVaultConfig, created |-> -1, ret |-> NoRet,
   timeConfig |-> ZeroTimeConfig, deadmanRemaining |-> -1,
   ids |-> << >>, idsRead |-> << >>, found |-> << >>]

\* One RPC call a handler issued: a contract read, a contract write or the wait for
\* a transaction receipt, whether it came back (ok) and what went in and out.
NoArgs == [vault |-> "", releaseType |-> -1, scheduledTime |-> -1, deadmanDuration |-> -1]

Rpc(kind, fn, ok) ==
  [kind |-> kind, fn |-> fn, ok |-> ok, flag |-> FALSE, value |-> -1, args |-> NoArgs]

Logged(c, entry) == [c EXCEPT !.log = Append(@, entry)]

Throw(c, message) == [c EXCEPT !.status = "threw", !.error = message, !.pc = "done"]

Return(c, ret) == [c EXCEPT !.status = "returned", !.ret = ret, !.pc = "done"]

RetVoid == [NoRet EXCEPT !.kind = "void"]

RetBool(b) == [NoRet EXCEPT !.kind = "bool", !.bool = b]

RetNull == [NoRet EXCEPT !.kind = "null"]

RetVault(v) == [NoRet EXCEPT !.kind = "vault", !.vault = v]

RetCid(cid) == [NoRet EXCEPT !.kind = "cid", !.cid = cid]

RetNum(n) == [NoRet EXCEPT !.kind = "num", !.num = n]

RetTimeConfig(t) == [NoRet EXCEPT !.kind = "time", !.time = t]

\* A guard the TimeManager's operations lack.
RequiresWallet_VaultManagerOnly(op) == op \in VaultWriteOps

\* The operations that refuse to run on a client that cannot write.
RequiresWallet(op) == op \in VaultWriteOps \cup TimeWriteOps

\* The first await of a TimeManager call once the vault address is known. triggerRelease
\* goes on to this.checkReleaseCondition(vaultId), which resolves the address again.
AfterAddress(c) ==
  IF c.op \in ConfigureOps THEN "tm_configure"
  ELSE IF c.op = "checkIn" THEN "tm_checkin"
  ELSE IF c.op = "deactivate" THEN "tm_deactivate"
  ELSE IF c.op = "getTimeUntilUnlock" THEN "tu_config"
  ELSE IF c.op \in {"getLastCheckIn", "getTimeConfig"} THEN "tc_read"
  ELSE IF c.ref.kind = "addr" THEN "tr_check"
  ELSE "tr_addr2"

\* The synchronous start of a call: ensureClient, the wallet guard, and the step to
\* the first await. getVaultAddress returns a 0x address as it is, without a read.
Begin(c) ==
  IF c.client = NoClient
    THEN Throw(c, "VaultClient required for blockchain operations")
  ELSE IF RequiresWallet(c.op) /\ ~canWrite(c.client)
    THEN Throw(c, "Write operations require a wallet")
  ELSE IF c.op = "createVault" THEN [c EXCEPT !.pc = "cv_fee"]
  ELSE IF c.op = "getVault" /\ c.ref.kind = "text" THEN Return(c, RetNull)
  ELSE IF c.op \in {"getVault", "updateVault"} THEN [c EXCEPT !.pc = "gv_vault"]
  ELSE IF c.op = "getVaultsByOwner" THEN [c EXCEPT !.pc = "go_ids"]
  ELSE IF c.op = "uploadContent" THEN [c EXCEPT !.pc = "uc_write"]
  ELSE IF c.op = "unlockVault" THEN [c EXCEPT !.pc = "ul_vault"]
  ELSE IF c.ref.kind = "addr"
    THEN [c EXCEPT !.vaultAddress = c.ref.address, !.pc = AfterAddress(c)]
  ELSE [c EXCEPT !.pc = "tm_addr"]

At(p, pc) == call[p].status = "running" /\ call[p].pc = pc

\* The arguments an operation takes: VaultManager takes numeric ids, createVault no id;
\* the scheduled and deadman configurations take the number they are given.
ArgsFit(op, ref, config) ==
  /\ (op = "createVault") = (ref = NoRef)
  /\ op \in VaultWriteOps \cup VaultReadOps => ref.kind # "addr"
  /\ ref.kind = "text" => op = "getVault"
  /\ op = "getVaultsByOwner" => ref.kind = "addr"
  /\ op \notin {"createVault", "updateVault"} \cup ConfigureOps => config = NoConfig
  /\ op \in {"configureScheduledRelease", "setUnlockTime"} => config.unlockTime # UndefNum
  /\ op = "configureDeadmanSwitch" => config.checkInPeriod # UndefNum

\* A caller invokes an operation.
StartCall(p, op, client, ref, config) ==
  /\ call[p].status = "idle"
  /\ ArgsFit(op, ref, config)
  /\ call' = [call EXCEPT ![p] =
       Begin([IdleCall EXCEPT !.op = op, !.client = client, !.ref = ref,
                              !.config = config, !.status = "running"])]
  /\ UNCHANGED varsChain
  /\ VaultFrame

\* The caller has taken the outcome of a finished call.
FinishCall(p) ==
  /\ call[p].status \in {"returned", "threw"}
  /\ call' = [call EXCEPT ![p] = IdleCall]
  /\ UNCHANGED varsChain
  /\ VaultFrame

\* createVault: readContract creationFee.
ReadCreationFee(p, ok) ==
  /\ At(p, "cv_fee")
  /\ call' = [call EXCEPT ![p] =
       LET c == Logged(@, Rpc("read", "creationFee", ok))
       IN  IF ok THEN [c EXCEPT !.pc = "cv_write"] ELSE Throw(c, "RPC call failed")]
  /\ UNCHANGED varsChain
  /\ VaultFrame

\* createVault: writeContract createVault(name, ''). The factory gives the new vault
\* the id vaultCount and counts it.
WriteCreateVault(p, ok) ==
  /\ At(p, "cv_write")
  /\ ok => vaultCount < MaxVaults
  /\ call' = [call EXCEPT ![p] =
       LET c == Logged(@, Rpc("write", "createVault", ok))
       IN  IF ok THEN [c EXCEPT !.pc = "cv_receipt", !.created = vaultCount]
           ELSE Throw(c, "RPC call failed")]
  /\ vaultCount' = IF ok THEN vaultCount + 1 ELSE vaultCount
  /\ vaults' =
       IF ok
         THEN Append(vaults, [id |-> vaultCount, vaultAddress |-> VaultAddressOf(vaultCount),
                              owner |-> call[p].client.account,
                              encryptedContentCID |-> "", isActive |-> TRUE])
         ELSE vaults
  /\ UNCHANGED vaultConfigs
  /\ VaultFrame

\* createVault: waitForTransactionReceipt.
WaitForReceipt(p, ok) ==
  /\ At(p, "cv_receipt")
  /\ call' = [call EXCEPT ![p] =
       LET c == Logged(@, Rpc("wait", "waitForTransactionReceipt", ok))
       IN  IF ok THEN [c EXCEPT !.pc = "cv_count"] ELSE Throw(c, "RPC call failed")]
  /\ UNCHANGED varsChain
  /\ VaultFrame

\* createVault: readContract vaultCount; the new vault's id is taken to be count - 1.
ReadVaultCount(p, ok) ==
  /\ At(p, "cv_count")
  /\ call' = [call EXCEPT ![p] =
       LET c == Logged(@, Rpc("read", "vaultCount", ok))
       IN  IF ok THEN [c EXCEPT !.pc = "cv_vault", !.vaultId = vaultCount - 1]
           ELSE Throw(c, "RPC call failed")]
  /\ UNCHANGED varsChain
  /\ VaultFrame

\* The VaultConfig createVault returns.
CreatedVaultConfig(c) ==
  [id |-> c.vaultId,
   owner |-> c.vaultData.owner,
   releaseType |-> IF TruthyStr(c.config.releaseType) THEN c.config.releaseType
                   ELSE "SCHEDULED",
   unlockTime |-> c.config.unlockTime,
   checkInPeriod |-> c.config.checkInPeriod,
   lastCheckIn |-> now]

\* createVault: readContract vaults(vaultId), then the time configuration if given.
ReadCreatedVault(p, ok) ==
  /\ At(p, "cv_vault")
  /\ call' = [call EXCEPT ![p] =
       LET c0 == Logged(call[p], Rpc("read", "vaults", ok))
           c == [c0 EXCEPT !.vaultData = ReadVaultsView(vaults, c0.vaultId)]
       IN  IF ~ok THEN Throw(c0, "RPC call failed")
           ELSE IF \/ TruthyStr(c.config.releaseType)
                   \/ TruthyNum(c.config.unlockTime)
                   \/ TruthyNum(c.config.checkInPeriod)
             THEN [c EXCEPT !.pc = "cv_time"]
           ELSE Return(c, RetVault(CreatedVaultConfig(c)))]
  /\ UNCHANGED varsChain
  /\ VaultFrame

\* The SDK ReleaseType mapped to the contract's enum, as createVault maps it.
ReleaseTypeEnum(releaseType) ==
  IF releaseType = "SCHEDULED" THEN ReleaseTypeContract_SCHEDULED
  ELSE IF releaseType = "DEADMAN" THEN ReleaseTypeContract_DEADMAN
  ELSE IF releaseType = "HYBRID" THEN ReleaseTypeContract_HYBRID
  ELSE ReleaseTypeContract_NONE

MaxOf(a, b) == IF a >= b THEN a ELSE b

\* The minimum deadman duration configureDeadmanSwitch enforces, in seconds.
MinDeadmanDuration == 86400

\* The arguments of the configureTime write each operation issues.
ConfigureTimeArgs(c) ==
  IF c.op = "createVault"
    THEN [vault |-> c.vaultData.vaultAddress,
          releaseType |-> ReleaseTypeEnum(c.config.releaseType),
          scheduledTime |-> IF TruthyNum(c.config.unlockTime)
                              THEN c.config.unlockTime \div 1000 ELSE 0,
          deadmanDuration |-> IF TruthyNum(c.config.checkInPeriod)
                                THEN c.config.checkInPeriod ELSE 0]
  ELSE IF c.op \in {"configureScheduledRelease", "setUnlockTime"}
    THEN [vault |-> c.vaultAddress,
          releaseType |-> ReleaseTypeContract_SCHEDULED,
          scheduledTime |-> c.config.unlockTime \div 1000,
          deadmanDuration |-> 0]
  ELSE IF c.op = "configureDeadmanSwitch"
    THEN [vault |-> c.vaultAddress,
          releaseType |-> ReleaseTypeContract_DEADMAN,
          scheduledTime |-> 0,
          deadmanDuration |-> MaxOf(c.config.checkInPeriod, MinDeadmanDuration)]
  ELSE [vault |-> c.vaultAddress,
        releaseType |-> ReleaseTypeContract_HYBRID,
        scheduledTime |-> IF TruthyNum(c.config.scheduledTime)
                            THEN c.config.scheduledTime \div 1000 ELSE 0,
        deadmanDuration |-> IF TruthyNum(c.config.deadmanDuration)
                              THEN c.config.deadmanDuration ELSE 0]

\* writeContract configureTime(vault, releaseType, scheduledTime, deadmanDuration), by
\* createVault and by the TimeManager's configure operations; mined at block time bt.
WriteConfigureTime(p, ok, bt) ==
  /\ At(p, "cv_time") \/ At(p, "tm_configure")
  /\ LET args == ConfigureTimeArgs(call[p])
         c == Logged(call[p], [Rpc("write", "configureTime", ok) EXCEPT !.args = args])
     IN  /\ call' = [call EXCEPT ![p] =
               IF ~ok THEN Throw(c, "RPC call failed")
               ELSE IF c.op = "createVault" THEN Return(c, RetVault(CreatedVaultConfig(c)))
               ELSE Return(c, RetVoid)]
         /\ vaultConfigs' =
               IF ok
                 THEN [vaultConfigs EXCEPT ![args.vault] =
                         [releaseType |-> args.releaseType,
                          scheduledReleaseTime |-> args.scheduledTime,
                          deadmanDuration |-> args.deadmanDuration,
                          lastCheckIn |-> bt,
                          isActive |-> TRUE]]
                 ELSE vaultConfigs
  /\ UNCHANGED <<vaultCount, vaults>>
  /\ VaultFrame

\* readContract vaults(BigInt(vaultId)): by getVault (also inside updateVault), by
\* unlockVault and by the TimeManager's getVaultAddress.
ReadVaults(p, ok) ==
  /\ At(p, "gv_vault") \/ At(p, "ul_vault") \/ At(p, "tm_addr") \/ At(p, "tr_addr2")
  /\ call' = [call EXCEPT ![p] =
       LET c0 == Logged(call[p], Rpc("read", "vaults", ok))
           data == ReadVaultsView(vaults, c0.ref.n)
           c == [c0 EXCEPT !.vaultData = data, !.vaultAddress = data.vaultAddress]
       IN  IF c0.pc = "gv_vault"
             THEN IF ok /\ data.isActive THEN [c EXCEPT !.pc = "gv_time"]
                  ELSE IF c0.op = "getVault" THEN Return(c0, RetNull)
                  ELSE Throw(c0, "Vault not found")
           ELSE IF ~ok THEN Throw(c0, "RPC call failed")
           ELSE IF c0.pc = "ul_vault" THEN [c EXCEPT !.pc = "ul_check"]
           ELSE IF c0.pc = "tm_addr" THEN [c EXCEPT !.pc = AfterAddress(c0)]
           ELSE [c0 EXCEPT !.pc = "tr_check"]]
  /\ UNCHANGED varsChain
  /\ VaultFrame

\* The contract's release type mapped to the SDK's, as getVault maps it.
ReleaseTypeOfEnum(e) ==
  IF e = ReleaseTypeContract_DEADMAN THEN "DEADMAN"
  ELSE IF e = ReleaseTypeContract_HYBRID THEN "HYBRID"
  ELSE "SCHEDULED"

\* The VaultConfig getVault builds from vaults(id) and, when that read came back with
\* an active configuration, from vaultConfigs(address).
getVaultResult(id, vaultData, timeOk, timeConfig) ==
  IF timeOk /\ timeConfig.isActive
    THEN [id |-> id, owner |-> vaultData.owner,
          releaseType |-> ReleaseTypeOfEnum(timeConfig.releaseType),
          unlockTime |-> timeConfig.scheduledReleaseTime * 1000,
          checkInPeriod |-> timeConfig.deadmanDuration,
          lastCheckIn |-> timeConfig.lastCheckIn * 1000]
    ELSE [id |-> id, owner |-> vaultData.owner, releaseType |-> "SCHEDULED",
          unlockTime |-> UndefNum, checkInPeriod |-> UndefNum, lastCheckIn |-> UndefNum]

\* { ...vault, ...updates }
MergeUpdates(vault, updates) ==
  [vault EXCEPT
     !.releaseType = IF updates.releaseType # Undefined THEN updates.releaseType ELSE @,
     !.unlockTime = IF updates.unlockTime # UndefNum THEN updates.unlockTime ELSE @,
     !.checkInPeriod = IF updates.checkInPeriod # UndefNum THEN updates.checkInPeriod ELSE @]

\* getVault: readContract vaultConfigs(vaultAddress); updateVault returns the vault
\* it read merged with the updates.
ReadVaultConfigs(p, ok) ==
  /\ At(p, "gv_time")
  /\ call' = [call EXCEPT ![p] =
       LET c == Logged(call[p], Rpc("read", "vaultConfigs", ok))
           v == getVaultResult(c.ref.n, c.vaultData, ok, vaultConfigs[c.vaultData.vaultAddress])
       IN  IF c.op = "getVault" THEN Return([c EXCEPT !.vault = v], RetVault(v))
           ELSE Return([c EXCEPT !.vault = v], RetVault(MergeUpdates(v, c.config)))]
  /\ UNCHANGED varsChain
  /\ VaultFrame

RetVaults(vs) == [NoRet EXCEPT !.kind = "vaults", !.list = vs]

\* The contract read getVaultsByOwner(owner): the ids of the owner's vaults, in the
\* order the factory created them.
OwnerIds(vs, owner) ==
  SelectSeq([i \in 1..Len(vs) |-> i - 1], LAMBDA id : vs[id + 1].owner = owner)

\* getVaultsByOwner: the head of its loop over the ids, and its return after it.
NextOwnerVault(c) ==
  IF c.ids = << >> THEN Return(c, RetVaults(c.found)) ELSE [c EXCEPT !.pc = "go_vault"]

\* getVaultsByOwner: readContract getVaultsByOwner(owner); an error is not caught.
ReadVaultsByOwner(p, ok) ==
  /\ At(p, "go_ids")
  /\ call' = [call EXCEPT ![p] =
       LET c == Logged(call[p], Rpc("read", "getVaultsByOwner", ok))
           ids == OwnerIds(vaults, c.ref.address)
       IN  IF ok THEN NextOwnerVault([c EXCEPT !.ids = ids, !.idsRead = ids])
           ELSE Throw(c, "RPC call failed")]
  /\ UNCHANGED varsChain
  /\ VaultFrame

\* getVaultsByOwner: this.getVault(id.toString()), its read of vaults(id); for null
\* the loop goes on to the next id.
ReadOwnerVault(p, ok) ==
  /\ At(p, "go_vault")
  /\ call' = [call EXCEPT ![p] =
       LET c == Logged(call[p], Rpc("read", "vaults", ok))
           data == ReadVaultsView(vaults, Head(c.ids))
       IN  IF ok /\ data.isActive THEN [c EXCEPT !.vaultData = data, !.pc = "go_time"]
           ELSE NextOwnerVault([c EXCEPT !.ids = Tail(@)])]
  /\ UNCHANGED varsChain
  /\ VaultFrame

\* getVaultsByOwner: this.getVault(id.toString()), its read of vaultConfigs; the vault
\* is pushed.
ReadOwnerVaultConfigs(p, ok) ==
  /\ At(p, "go_time")
  /\ call' = [call EXCEPT ![p] =
       LET c == Logged(call[p], Rpc("read", "vaultConfigs", ok))
           v == getVaultResult(Head(c.ids), c.vaultData, ok,
                               vaultConfigs[c.vaultData.vaultAddress])
       IN  NextOwnerVault([c EXCEPT !.found = Append(@, v), !.ids = Tail(@)])]
  /\ UNCHANGED varsChain
  /\ VaultFrame

\* The content CID callers upload.
ContentCid == "QmContent"

\* uploadContent: writeContract updateVaultContent(BigInt(vaultId), contentCID).
WriteUpdateVaultContent(p, ok) ==
  /\ At(p, "uc_write")
  /\ ok => call[p].ref.n \in 0..(vaultCount - 1)
  /\ call' = [call EXCEPT ![p] =
       LET c == Logged(call[p], Rpc("write", "updateVaultContent", ok))
       IN  IF ok THEN Return(c, RetCid(ContentCid)) ELSE Throw(c, "RPC call failed")]
  /\ vaults' = IF ok
                 THEN [vaults EXCEPT ![call[p].ref.n + 1].encryptedContentCID = ContentCid]
                 ELSE vaults
  /\ UNCHANGED <<vaultCount, vaultConfigs>>
  /\ VaultFrame

\* A release that goes on to the write whatever checkReleaseCondition answered.
ReadCheckReleaseCondition_Ungated(p, ok, shouldRelease) ==
  /\ At(p, "ul_check") \/ At(p, "tr_check")
  /\ ~ok => ~shouldRelease
  /\ call' = [call EXCEPT ![p] =
       LET c == Logged(call[p], [Rpc("read", "checkReleaseCondition", ok)
                                   EXCEPT !.flag = shouldRelease])
       IN  IF ~ok THEN Throw(c, "RPC call failed")
           ELSE [c EXCEPT !.pc = IF c.pc = "ul_check" THEN "ul_write" ELSE "tr_write"]]
  /\ UNCHANGED varsChain
  /\ VaultFrame

\* readContract checkReleaseCondition(vaultAddress), by unlockVault and by
\* triggerRelease (through this.checkReleaseCondition). The contract decides
\* shouldRelease from its own state and the block time.
ReadCheckReleaseCondition(p, ok, shouldRelease) ==
  /\ At(p, "ul_check") \/ At(p, "tr_check")
  /\ ~ok => ~shouldRelease
  /\ call' = [call EXCEPT ![p] =
       LET c == Logged(call[p], [Rpc("read", "checkReleaseCondition", ok)
                                   EXCEPT !.flag = shouldRelease])
       IN  IF ~ok THEN Throw(c, "RPC call failed")
           ELSE IF ~shouldRelease THEN Return(c, RetBool(FALSE))
           ELSE [c EXCEPT !.pc = IF c.pc = "ul_check" THEN "ul_write" ELSE "tr_write"]]
  /\ UNCHANGED varsChain
  /\ VaultFrame

\* A triggerRelease write whose failure escapes from both callers.
WriteTriggerRelease_Propagates(p, ok) ==
  /\ At(p, "ul_write") \/ At(p, "tr_write")
  /\ call' = [call EXCEPT ![p] =
       LET c == Logged(call[p], [Rpc("write", "triggerRelease", ok)
                                   EXCEPT !.args = [NoArgs EXCEPT !.vault = call[p].vaultAddress]])
       IN  IF ok THEN Return(c, RetBool(TRUE)) ELSE Throw(c, "RPC call failed")]
  /\ UNCHANGED varsChain
  /\ VaultFrame

\* writeContract triggerRelease(vaultAddress): unlockVault lets a failure escape,
\* TimeManager.triggerRelease catches it and returns false.
WriteTriggerRelease(p, ok) ==
  /\ At(p, "ul_write") \/ At(p, "tr_write")
  /\ call' = [call EXCEPT ![p] =
       LET c == Logged(call[p], [Rpc("write", "triggerRelease", ok)
                                   EXCEPT !.args = [NoArgs EXCEPT !.vault = call[p].vaultAddress]])
       IN  IF ok THEN Return(c, RetBool(TRUE))
           ELSE IF c.pc = "ul_write" THEN Throw(c, "RPC call failed")
           ELSE Return(c, RetBool(FALSE))]
  /\ UNCHANGED varsChain
  /\ VaultFrame

\* checkIn: writeContract recordCheckIn(vaultAddress), mined at block time bt.
WriteRecordCheckIn(p, ok, bt) ==
  /\ At(p, "tm_checkin")
  /\ call' = [call EXCEPT ![p] =
       LET c == Logged(call[p], Rpc("write", "recordCheckIn", ok))
       IN  IF ok THEN Return(c, RetBool(TRUE)) ELSE Return(c, RetBool(FALSE))]
  /\ vaultConfigs' =
       IF ok THEN [vaultConfigs EXCEPT ![call[p].vaultAddress].lastCheckIn = bt]
       ELSE vaultConfigs
  /\ UNCHANGED <<vaultCount, vaults>>
  /\ VaultFrame

\* deactivate: writeContract deactivate(vaultAddress).
WriteDeactivate(p, ok) ==
  /\ At(p, "tm_deactivate")
  /\ call' = [call EXCEPT ![p] =
       LET c == Logged(call[p], Rpc("write", "deactivate", ok))
       IN  IF ok THEN Return(c, RetVoid) ELSE Throw(c, "RPC call failed")]
  /\ vaultConfigs' =
       IF ok THEN [vaultConfigs EXCEPT ![call[p].vaultAddress].isActive = FALSE]
       ELSE vaultConfigs
  /\ UNCHANGED <<vaultCount, vaults>>
  /\ VaultFrame

\* The SDK release type getTimeConfig reports for the contract's.
ReleaseTypeOfConfig(e) ==
  IF e = ReleaseTypeContract_SCHEDULED THEN "SCHEDULED"
  ELSE IF e = ReleaseTypeContract_DEADMAN THEN "DEADMAN"
  ELSE IF e = ReleaseTypeContract_HYBRID THEN "HYBRID"
  ELSE "SCHEDULED"

\* A getTimeConfig that reports the contract's seconds as they are.
getTimeConfigResult_Seconds(config) ==
  [releaseType |-> ReleaseTypeOfConfig(config.releaseType),
   scheduledTime |-> config.scheduledReleaseTime,
   deadmanDuration |-> config.deadmanDuration,
   lastCheckIn |-> config.lastCheckIn,
   isActive |-> config.isActive]

\* What getTimeConfig makes of the tuple vaultConfigs(address) returned.
getTimeConfigResult(config) ==
  [releaseType |-> ReleaseTypeOfConfig(config.releaseType),
   scheduledTime |-> config.scheduledReleaseTime * 1000,
   deadmanDuration |-> config.deadmanDuration,
   lastCheckIn |-> config.lastCheckIn * 1000,
   isActive |-> config.isActive]

\* readContract vaultConfigs(vaultAddress) by getTimeConfig, getLastCheckIn and
\* getTimeUntilUnlock; the last goes on by the release type it read.
ReadTimeConfig(p, ok) ==
  /\ At(p, "tc_read") \/ At(p, "tu_config")
  /\ call' = [call EXCEPT ![p] =
       LET config == vaultConfigs[call[p].vaultAddress]
           c == [Logged(call[p], [Rpc("read", "vaultConfigs", ok)
                                    EXCEPT !.value = config.releaseType])
                   EXCEPT !.timeConfig = config]
       IN  IF ~ok THEN Throw(Logged(call[p], Rpc("read", "vaultConfigs", ok)),
                             "RPC call failed")
           ELSE IF c.op = "getTimeConfig"
             THEN Return(c, RetTimeConfig(getTimeConfigResult(config)))
           ELSE IF c.op = "getLastCheckIn" THEN Return(c, RetNum(config.lastCheckIn * 1000))
           ELSE IF config.releaseType \in
                     {ReleaseTypeContract_SCHEDULED, ReleaseTypeContract_HYBRID}
             THEN [c EXCEPT !.pc = "tu_sched"]
           ELSE IF config.releaseType = ReleaseTypeContract_DEADMAN
             THEN [c EXCEPT !.pc = "tu_deadman"]
           ELSE Return(c, RetNum(0))]
  /\ UNCHANGED varsChain
  /\ VaultFrame

\* A hybrid release reported by its scheduled time alone.
MinOf_First(a, b) == a

MinOf(a, b) == IF a <= b THEN a ELSE b

\* The seconds the contract's getTimeUntil... views answer.
RemainingValues == {0, 5, 9}

\* getTimeUntilUnlock: readContract getTimeUntilScheduledRelease (before the deadman
\* read, and once more after it for HYBRID) and getTimeUntilDeadmanRelease.
ReadTimeRemaining(p, ok, remaining) ==
  /\ At(p, "tu_sched") \/ At(p, "tu_deadman") \/ At(p, "tu_sched2")
  /\ ~ok => remaining = 0
  /\ call' = [call EXCEPT ![p] =
       LET fn == IF call[p].pc = "tu_deadman" THEN "getTimeUntilDeadmanRelease"
                 ELSE "getTimeUntilScheduledRelease"
           c == Logged(call[p], [Rpc("read", fn, ok) EXCEPT !.value = remaining])
           releaseType == c.timeConfig.releaseType
       IN  IF ~ok THEN Throw(c, "RPC call failed")
           ELSE IF c.pc = "tu_sched"
             THEN IF releaseType = ReleaseTypeContract_SCHEDULED
                    THEN Return(c, RetNum(remaining))
                  ELSE [c EXCEPT !.pc = "tu_deadman"]
           ELSE IF c.pc = "tu_deadman"
             THEN IF releaseType = ReleaseTypeContract_DEADMAN
                    THEN Return(c, RetNum(remaining))
                  ELSE [c EXCEPT !.deadmanRemaining = remaining, !.pc = "tu_sched2"]
           ELSE Return(c, RetNum(MinOf(remaining, c.deadmanRemaining)))]
  /\ UNCHANGED varsChain
  /\ VaultFrame

\* The call slots: two callers may have a call in progress at once.
Calls == {1, 2}

\* The clients the managers are built on: the clients createVaultClient returns on chain 97
\* with the default RPC URL (private key, external wallet without account, read-only),
\* and the legacy constructor's null client.
ManagerClients ==
  {createVaultClient(c).client :
     c \in {c \in VaultClientConfig :
              c.chainId = 97 /\ c.rpcUrl = Undefined /\ c.account = Undefined}}
  \cup {NoClient}

RefInputs == {IdRef(0), AddrRef(VaultAddressOf(0))}

ConfigInputs ==
  {NoConfig,
   [NoConfig EXCEPT !.releaseType = "HYBRID", !.unlockTime = 1500, !.checkInPeriod = 3600]}

VaultFresh ==
  /\ vaultCount = 0
  /\ vaults = << >>
  /\ vaultConfigs = [a \in VaultAddresses |-> ZeroTimeConfig]
  /\ call = [p \in Calls |-> IdleCall]

InitVault == VaultFresh

\* The vault variables in the specifications of the other subsystems.
VaultIdle == VaultFresh

\* One caller, every operation: calls follow one another.
Next ==
  \/ \E op \in AllOps, client \in ManagerClients, ref \in RefInputs \cup {NoRef},
        config \in ConfigInputs :
       StartCall(1, op, client, ref, config)
  \/ FinishCall(1)
  \/ \E ok \in BOOLEAN : ReadCreationFee(1, ok)
  \/ \E ok \in BOOLEAN : WriteCreateVault(1, ok)
  \/ \E ok \in BOOLEAN : WaitForReceipt(1, ok)
  \/ \E ok \in BOOLEAN : ReadVaultCount(1, ok)
  \/ \E ok \in BOOLEAN : ReadCreatedVault(1, ok)
  \/ \E ok \in BOOLEAN, bt \in BlockTimes : WriteConfigureTime(1, ok, bt)
  \/ \E ok \in BOOLEAN : ReadVaults(1, ok)
  \/ \E ok \in BOOLEAN : ReadVaultConfigs(1, ok)
  \/ \E ok \in BOOLEAN : WriteUpdateVaultContent(1, ok)
  \/ \E ok \in BOOLEAN, shouldRelease \in BOOLEAN : ReadCheckReleaseCondition(1, ok, shouldRelease)
  \/ \E ok \in BOOLEAN : WriteTriggerRelease(1, ok)
  \/ \E ok \in BOOLEAN, bt \in BlockTimes : WriteRecordCheckIn(1, ok, bt)
  \/ \E ok \in BOOLEAN : WriteDeactivate(1, ok)

\* The unlock times (milliseconds) and check-in periods (seconds) callers configure.
UnlockTimeInputs == {0, 999, 1500, 2000}

TimeConfigInputs ==
  {[NoConfig EXCEPT !.unlockTime = t] : t \in UnlockTimeInputs}
  \cup {NoConfig,
        [NoConfig EXCEPT !.releaseType = "DEADMAN", !.checkInPeriod = 90000],
        [NoConfig EXCEPT !.releaseType = "HYBRID", !.unlockTime = 1500,
                         !.checkInPeriod = 3600]}

\* The operations that write and read the time configuration.
TimeOps ==
  {"createVault", "getVault", "configureScheduledRelease", "configureDeadmanSwitch",
   "configureHybridRelease", "checkIn"} \cup TimeReadOps

\* One caller with a wallet, the operations on the time configuration.
NextTime ==
  \/ \E op \in TimeOps, client \in {c \in ManagerClients : canWrite(c)},
        ref \in {IdRef(0), NoRef}, config \in TimeConfigInputs :
       StartCall(1, op, client, ref, config)
  \/ FinishCall(1)
  \/ \E ok \in BOOLEAN : ReadCreationFee(1, ok)
  \/ \E ok \in BOOLEAN : WriteCreateVault(1, ok)
  \/ \E ok \in BOOLEAN : WaitForReceipt(1, ok)
  \/ \E ok \in BOOLEAN : ReadVaultCount(1, ok)
  \/ \E ok \in BOOLEAN : ReadCreatedVault(1, ok)
  \/ \E ok \in BOOLEAN, bt \in BlockTimes : WriteConfigureTime(1, ok, bt)
  \/ \E ok \in BOOLEAN : ReadVaults(1, ok)
  \/ \E ok \in BOOLEAN : ReadVaultConfigs(1, ok)
  \/ \E ok \in BOOLEAN, bt \in BlockTimes : WriteRecordCheckIn(1, ok, bt)
  \/ \E ok \in BOOLEAN : ReadTimeConfig(1, ok)
  \/ \E ok \in BOOLEAN, remaining \in RemainingValues : ReadTimeRemaining(1, ok, remaining)

\* The chain clears the active flag of a vault, between the caller's calls.
ChainDeactivatesVault(id) ==
  /\ \A p \in Calls : call[p].status = "idle"
  /\ id \in 0..(Len(vaults) - 1) /\ vaults[id + 1].isActive
  /\ vaults' = [vaults EXCEPT ![id + 1].isActive = FALSE]
  /\ UNCHANGED <<vaultCount, vaultConfigs, call>>
  /\ VaultFrame

\* The owners getVaultsByOwner is asked about: the accounts of the writing clients.
OwnerInputs == {c.account : c \in {m \in ManagerClients \ {NoClient} : canWrite(m)}}

\* One caller: vaults are created, the chain deactivates some, getVault and
\* getVaultsByOwner read them.
NextOwner ==
  \/ \E client \in ManagerClients, config \in ConfigInputs :
       StartCall(1, "createVault", client, NoRef, config)
  \/ \E client \in ManagerClients, ref \in {IdRef(i) : i \in 0..MaxVaults} \cup {TextRef} :
       StartCall(1, "getVault", client, ref, NoConfig)
  \/ \E client \in ManagerClients, owner \in OwnerInputs :
       StartCall(1, "getVaultsByOwner", client, AddrRef(owner), NoConfig)
  \/ FinishCall(1)
  \/ \E ok \in BOOLEAN : ReadCreationFee(1, ok)
  \/ \E ok \in BOOLEAN : WriteCreateVault(1, ok)
  \/ \E ok \in BOOLEAN : WaitForReceipt(1, ok)
  \/ \E ok \in BOOLEAN : ReadVaultCount(1, ok)
  \/ \E ok \in BOOLEAN : ReadCreatedVault(1, ok)
  \/ \E ok \in BOOLEAN, bt \in BlockTimes : WriteConfigureTime(1, ok, bt)
  \/ \E ok \in BOOLEAN : ReadVaults(1, ok)
  \/ \E ok \in BOOLEAN : ReadVaultConfigs(1, ok)
  \/ \E ok \in BOOLEAN : ReadVaultsByOwner(1, ok)
  \/ \E ok \in BOOLEAN : ReadOwnerVault(1, ok)
  \/ \E ok \in BOOLEAN : ReadOwnerVaultConfigs(1, ok)
  \/ \E id \in 0..(MaxVaults - 1) : ChainDeactivatesVault(id)

\* Two callers, createVault only: their calls interleave at every await.
NextCreate ==
  \E p \in Calls :
    \/ \E client \in ManagerClients, config \in ConfigInputs :
         StartCall(p, "createVault", client, NoRef, config)
    \/ FinishCall(p)
    \/ \E ok \in BOOLEAN : ReadCreationFee(p, ok)
    \/ \E ok \in BOOLEAN : WriteCreateVault(p, ok)
    \/ \E ok \in BOOLEAN : WaitForReceipt(p, ok)
    \/ \E ok \in BOOLEAN : ReadVaultCount(p, ok)
    \/ \E ok \in BOOLEAN : ReadCreatedVault(p, ok)
    \/ \E ok \in BOOLEAN, bt \in BlockTimes : WriteConfigureTime(p, ok, bt)

(***************************************************************************)
(* client.ts: AttestationClient, against the AttestationHub contract       *)
(***************************************************************************)
MaxRequests == 2

\* The address a caller configures for a deployed AttestationHub.
HubAddress == "0xHub"

\* A VaultClient whose contracts carry the AttestationHub address.
WithAttestationHub(client) == [client EXCEPT !.contracts.AttestationHub = HubAddress]

\* new AttestationClient(client)
NewAttestationClient(client) ==
  [client |-> client,
   contractAddress |-> IF TruthyStr(client.contracts.AttestationHub)
                         THEN client.contracts.AttestationHub ELSE ZERO_ADDRESS]

\* new AttestationClient(address): the legacy constructor, client null.
LegacyAttestationClient(address) == [client |-> NoClient, contractAddress |-> address]

AttestationClients ==
  {NewAttestationClient(c) : c \in ManagerClients \ {NoClient}}
  \cup {NewAttestationClient(WithAttestationHub(c)) : c \in ManagerClients \ {NoClient}}
  \cup {LegacyAttestationClient(a) : a \in {HubAddress, ZERO_ADDRESS, ""}}

\* ensureContractAvailable without its test for an absent address.
ensureContractAvailable_ZeroOnly(att) ==
  IF att.contractAddress = ZERO_ADDRESS
    THEN "AttestationHub contract not deployed on this network"
  ELSE ""

\* ensureContractAvailable: "" when the contract address is usable.
ensureContractAvailable(att) ==
  IF ~TruthyStr(att.contractAddress) \/ att.contractAddress = ZERO_ADDRESS
    THEN "AttestationHub contract not deployed on this network"
  ELSE ""

\* ensureClient
ensureClient(att) ==
  IF att.client = NoClient THEN "VaultClient required for blockchain operations" ELSE ""

\* ensureWriteClient
ensureWriteClient(att) ==
  IF ensureClient(att) # "" THEN ensureClient(att)
  ELSE IF ~canWrite(att.client) THEN "Write operations require a wallet"
  ELSE ""

\* The struct getAttestationRequest returns for an id the hub holds no request for.
ZeroRequest == [requestId |-> 0, requester |-> ZERO_ADDRESS, fulfilled |-> FALSE]

\* The contract read getAttestationRequest(requestId).
getAttestationRequest(requests, requestId) ==
  IF \E i \in 1..Len(requests) : requests[i].requestId = requestId
    THEN requests[CHOOSE i \in 1..Len(requests) : requests[i].requestId = requestId]
  ELSE ZeroRequest

NoAttRet ==
  [kind |-> "none", id |-> -1, request |-> ZeroRequest, reached |-> FALSE, result |-> FALSE]

IdleAttCall ==
  [op |-> "none", pc |-> "idle", status |-> "idle", error |-> "", requestId |-> -1,
   assigned |-> -1, rpcs |-> 0, ret |-> NoAttRet]

AttThrow(c, message) == [c EXCEPT !.status = "threw", !.error = message, !.pc = "done"]

\* The call has issued one more RPC request (writeContract, waitForTransactionReceipt
\* or a contract read).
AttRpc(c) == [c EXCEPT !.rpcs = @ + 1]

AttReturn(c, ret) == [c EXCEPT !.status = "returned", !.ret = ret, !.pc = "done"]

AttFresh == hubRequests = << >> /\ attCall = IdleAttCall

InitAttest == attestation \in AttestationClients /\ AttFresh

\* The attestation variables in the specifications of the other subsystems.
AttestIdle == attestation = LegacyAttestationClient(ZERO_ADDRESS) /\ AttFresh

\* submitAttestation up to its first await: the two guards.
SubmitAttestation ==
  /\ attCall.status = "idle"
  /\ attCall' =
       LET c == [IdleAttCall EXCEPT !.op = "submitAttestation", !.status = "running"]
       IN  IF ensureContractAvailable(attestation) # ""
             THEN AttThrow(c, ensureContractAvailable(attestation))
           ELSE IF ensureWriteClient(attestation) # ""
             THEN AttThrow(c, ensureWriteClient(attestation))
           ELSE [c EXCEPT !.pc = "sa_write"]
  /\ UNCHANGED <<attestation, hubRequests>>
  /\ AttestFrame

\* submitAttestation: writeContract requestAttestation(...); the error is rethrown.
WriteRequestAttestation(ok) ==
  /\ attCall.status = "running" /\ attCall.pc = "sa_write"
  /\ attCall' = IF ok THEN [AttRpc(attCall) EXCEPT !.pc = "sa_receipt"]
                ELSE AttThrow(AttRpc(attCall), "RPC call failed")
  /\ UNCHANGED <<attestation, hubRequests>>
  /\ AttestFrame

\* The outcomes of waitForTransactionReceipt.
ReceiptOutcomes == {"success", "reverted", "failed"}

\* submitAttestation: waitForTransactionReceipt. A transaction mined with success
\* has the hub store the request under the next id it assigns; the call returns
\* BigInt(Date.now()).
WaitForAttestationReceipt(outcome) ==
  /\ attCall.status = "running" /\ attCall.pc = "sa_receipt"
  /\ outcome = "success" => Len(hubRequests) < MaxRequests
  /\ LET id == Len(hubRequests) + 1
     IN  /\ hubRequests' =
               IF outcome = "success"
                 THEN Append(hubRequests, [requestId |-> id,
                                           requester |-> attestation.client.account,
                                           fulfilled |-> FALSE])
                 ELSE hubRequests
         /\ attCall' =
               IF outcome = "success"
                 THEN AttReturn([AttRpc(attCall) EXCEPT !.assigned = id],
                                [NoAttRet EXCEPT !.kind = "id", !.id = now])
               ELSE IF outcome = "reverted"
                 THEN AttThrow(AttRpc(attCall), "Attestation request transaction failed")
               ELSE AttThrow(AttRpc(attCall), "RPC call failed")
  /\ UNCHANGED attestation
  /\ AttestFrame

\* getAttestationStatus and verifyAttestation up to their first await.
StartAttestationRead(op, requestId) ==
  /\ attCall.status = "idle"
  /\ attCall' =
       LET c == [IdleAttCall EXCEPT !.op = op, !.status = "running", !.requestId = requestId]
       IN  IF ensureContractAvailable(attestation) # ""
             THEN AttThrow(c, ensureContractAvailable(attestation))
           ELSE IF ensureClient(attestation) # ""
             THEN AttThrow(c, ensureClient(attestation))
           ELSE [c EXCEPT !.pc = IF op = "getAttestationStatus" THEN "gs_read" ELSE "va_read"]
  /\ UNCHANGED <<attestation, hubRequests>>
  /\ AttestFrame

\* getAttestationStatus: contract.read.getAttestationRequest([BigInt(requestId)]).
ReadAttestationRequest(ok) ==
  /\ attCall.status = "running" /\ attCall.pc = "gs_read"
  /\ attCall' =
       IF ok
         THEN AttReturn(AttRpc(attCall),
                [NoAttRet EXCEPT !.kind = "request",
                   !.request = getAttestationRequest(hubRequests, attCall.requestId)])
       ELSE AttThrow(AttRpc(attCall), "RPC call failed")
  /\ UNCHANGED <<attestation, hubRequests>>
  /\ AttestFrame

\* verifyAttestation: contract.read.checkConsensus([BigInt(requestId)]); the oracle
\* network decides what the hub answers.
ReadCheckConsensus(ok, reached, result) ==
  /\ attCall.status = "running" /\ attCall.pc = "va_read"
  /\ ~ok => ~reached /\ ~result
  /\ attCall' =
       IF ok
         THEN AttReturn(AttRpc(attCall),
                [NoAttRet EXCEPT !.kind = "consensus", !.reached = reached, !.result = result])
       ELSE AttThrow(AttRpc(attCall), "RPC call failed")
  /\ UNCHANGED <<attestation, hubRequests>>
  /\ AttestFrame

\* The AttestationClient operations that send a transaction and return whether its
\* receipt reports success, and the ones that return what one contract read answers.
AttestationWriteOps == {"registerAgent", "deregisterAgent", "provideAttestation"}

AttestationQueryOps ==
  {"getAttestationResponses", "getOracleNode", "getActiveOracles", "getActiveOracleCount",
   "isPaused"}

\* registerAgent, deregisterAgent, provideAttestation up to their first await.
StartAttestationWrite(op) ==
  /\ attCall.status = "idle"
  /\ attCall' =
       LET c == [IdleAttCall EXCEPT !.op = op, !.status = "running"]
       IN  IF ensureContractAvailable(attestation) # ""
             THEN AttThrow(c, ensureContractAvailable(attestation))
           ELSE IF ensureWriteClient(attestation) # ""
             THEN AttThrow(c, ensureWriteClient(attestation))
           ELSE [c EXCEPT !.pc = "aw_write"]
  /\ UNCHANGED <<attestation, hubRequests>>
  /\ AttestFrame

\* writeContract of registerOracle, deregisterOracle or submitAttestation; the error
\* is rethrown.
WriteAttestationContract(ok) ==
  /\ attCall.status = "running" /\ attCall.pc = "aw_write"
  /\ attCall' = IF ok THEN [AttRpc(attCall) EXCEPT !.pc = "aw_receipt"]
                ELSE AttThrow(AttRpc(attCall), "RPC call failed")
  /\ UNCHANGED <<attestation, hubRequests>>
  /\ AttestFrame

\* waitForTransactionReceipt, then return receipt.status === 'success'.
WaitForAgentReceipt(outcome) ==
  /\ attCall.status = "running" /\ attCall.pc = "aw_receipt"
  /\ attCall' =
       IF outcome = "failed" THEN AttThrow(AttRpc(attCall), "RPC call failed")
       ELSE AttReturn(AttRpc(attCall),
              [NoAttRet EXCEPT !.kind = "bool", !.result = (outcome = "success")])
  /\ UNCHANGED <<attestation, hubRequests>>
  /\ AttestFrame

\* getAttestationResponses, getOracleNode, getActiveOracles, getActiveOracleCount,
\* isPaused up to their first await.
StartAttestationQuery(op) ==
  /\ attCall.status = "idle"
  /\ attCall' =
       LET c == [IdleAttCall EXCEPT !.op = op, !.status = "running"]
       IN  IF ensureContractAvailable(attestation) # ""
             THEN AttThrow(c, ensureContractAvailable(attestation))
           ELSE IF ensureClient(attestation) # ""
             THEN AttThrow(c, ensureClient(attestation))
           ELSE [c EXCEPT !.pc = "aq_read"]
  /\ UNCHANGED <<attestation, hubRequests>>
  /\ AttestFrame

\* The one contract read of a query; what it answers is the hub's to decide.
ReadAttestationContract(ok) ==
  /\ attCall.status = "running" /\ attCall.pc = "aq_read"
  /\ attCall' = IF ok THEN AttReturn(AttRpc(attCall), [NoAttRet EXCEPT !.kind = "answer"])
                ELSE AttThrow(AttRpc(attCall), "RPC call failed")
  /\ UNCHANGED <<attestation, hubRequests>>
  /\ AttestFrame

\* The caller has taken the outcome of a finished call.
FinishAttestationCall ==
  /\ attCall.status \in {"returned", "threw"}
  /\ attCall' = IdleAttCall
  /\ UNCHANGED <<attestation, hubRequests>>
  /\ AttestFrame

\* The request ids callers ask about.
RequestIdInputs == 0..MaxRequests

NextAttest ==
  \/ Tick
  \/ SubmitAttestation
  \/ \E ok \in BOOLEAN : WriteRequestAttestation(ok)
  \/ \E outcome \in ReceiptOutcomes : WaitForAttestationReceipt(outcome)
  \/ \E op \in {"getAttestationStatus", "verifyAttestation"}, requestId \in RequestIdInputs :
       StartAttestationRead(op, requestId)
  \/ \E ok \in BOOLEAN : ReadAttestationRequest(ok)
  \/ \E ok \in BOOLEAN, reached \in BOOLEAN, result \in BOOLEAN :
       ReadCheckConsensus(ok, reached, result)
  \/ FinishAttestationCall

(***************************************************************************)
(* attestation/index.ts: AIVaultManager, against the AIVaultManager        *)
(* contract                                                                *)
(***************************************************************************)
\* The address a caller configures for a deployed AIVaultManager contract.
AIManagerAddress == "0xAI"

\* A VaultClient whose contracts carry the AIVaultManager address.
WithAIVaultManager(client) == [client EXCEPT !.contracts.AIVaultManager = AIManagerAddress]

\* new AIVaultManager(client)
NewAIVaultManager(client) ==
  [client |-> client,
   contractAddress |-> IF TruthyStr(client.contracts.AIVaultManager)
                         THEN client.contracts.AIVaultManager ELSE ZERO_ADDRESS]

\* new AIVaultManager(address): the legacy constructor, client null.
LegacyAIVaultManager(address) == [client |-> NoClient, contractAddress |-> address]

AIVaultManagers ==
  {NewAIVaultManager(c) : c \in ManagerClients \ {NoClient}}
  \cup {NewAIVaultManager(WithAIVaultManager(c)) : c \in ManagerClients \ {NoClient}}
  \cup {LegacyAIVaultManager(a) : a \in {AIManagerAddress, ZERO_ADDRESS, ""}}

\* AIVaultManager.ensureContractAvailable: "" when the contract address is usable.
\* (AIVaultManager.ensureClient and ensureWriteClient are the AttestationClient's,
\* word for word.)
aiEnsureContractAvailable(ai) ==
  IF ~TruthyStr(ai.contractAddress) \/ ai.contractAddress = ZERO_ADDRESS
    THEN "AIVaultManager contract not deployed on this network"
  ELSE ""

AIWriteOps == {"enableMonitoring", "disableMonitoring", "resumeVault"}

AIReadOps ==
  {"getVaultAIState", "getLivenessScore", "getRiskScore", "predictUnlockTime",
   "getRecommendations", "shouldPreventRelease", "shouldReleaseVault", "getThresholds",
   "getAuthorizedAgentCount", "isAuthorizedAgent"}

\* The contract's VaultAIState of a vault never monitored: scores in basis points.
ZeroAIState ==
  [livenessScore |-> 0, riskScore |-> 0, aiCheckCount |-> 0,
   aiVerificationEnabled |-> FALSE, isPausedByAI |-> FALSE]

\* The states getVaultAIState answers with, on both sides of every threshold.
VaultAIStates ==
  [livenessScore : {4999, 5000}, riskScore : {7000, 7001, 9000, 9001},
   aiCheckCount : {0, 1}, aiVerificationEnabled : BOOLEAN, isPausedByAI : BOOLEAN]

\* The recommendation texts; the two that embed a percentage and the one that
\* embeds lastAIReason are kept as the fixed text they begin with.
RecEnableVerification == "Enable AI verification for enhanced security monitoring"
RecLowLiveness == "Low liveness score"
RecHighRisk == "High risk score"
RecCriticalRisk == "Critical risk level - Vault may be auto-paused for security"
RecPausedByAI == "Vault is paused by AI"
RecContactSupport == "Contact support or review security settings to resume"
RecNoChecks == "No AI checks performed yet - AI agents will begin monitoring soon"
RecGoodStanding == "Vault is in good standing - no immediate actions required"

PushIf(cond, recommendations, texts) ==
  IF cond THEN recommendations \o texts ELSE recommendations

\* The recommendations without the closing fallback for an empty list.
getRecommendations_NoFallback(state) ==
  LET r1 == PushIf(~state.aiVerificationEnabled, << >>, <<RecEnableVerification>>)
      r2 == PushIf(state.livenessScore < 50 * 100, r1, <<RecLowLiveness>>)
      r3 == PushIf(state.riskScore > 70 * 100, r2, <<RecHighRisk>>)
      r4 == PushIf(state.riskScore > 90 * 100, r3, <<RecCriticalRisk>>)
      r5 == PushIf(state.isPausedByAI, r4, <<RecPausedByAI, RecContactSupport>>)
  IN  PushIf(state.aiCheckCount = 0, r5, <<RecNoChecks>>)

\* getRecommendations after its contract read. The code compares
\* Number(score) / 100 with 50, 70 and 90; for an integer score in basis points
\* that is the comparison of the score with 5000, 7000 and 9000.
getRecommendations(state) ==
  LET r1 == PushIf(~state.aiVerificationEnabled, << >>, <<RecEnableVerification>>)
      r2 == PushIf(state.livenessScore < 50 * 100, r1, <<RecLowLiveness>>)
      r3 == PushIf(state.riskScore > 70 * 100, r2, <<RecHighRisk>>)
      r4 == PushIf(state.riskScore > 90 * 100, r3, <<RecCriticalRisk>>)
      r5 == PushIf(state.isPausedByAI, r4, <<RecPausedByAI, RecContactSupport>>)
      r6 == PushIf(state.aiCheckCount = 0, r5, <<RecNoChecks>>)
  IN  PushIf(Len(r6) = 0, r6, <<RecGoodStanding>>)

\* The operations whose contract read is getVaultAIState.
AIStateOps ==
  {"getVaultAIState", "getLivenessScore", "getRiskScore", "predictUnlockTime",
   "getRecommendations"}

IdleAICall ==
  [op |-> "none", pc |-> "idle", status |-> "idle", error |-> "", rpcs |-> 0,
   ret |-> "none", state |-> ZeroAIState, recommendations |-> << >>]

AIFresh == aiCall = IdleAICall

InitAI == aiManager \in AIVaultManagers /\ AIFresh

\* The AIVaultManager variables in the specifications of the other subsystems.
AIIdle == aiManager = LegacyAIVaultManager(ZERO_ADDRESS) /\ AIFresh

\* enableMonitoring, disableMonitoring, resumeVault up to their first await.
StartAIWrite(op) ==
  /\ aiCall.status = "idle"
  /\ aiCall' =
       LET c == [IdleAICall EXCEPT !.op = op, !.status = "running"]
       IN  IF aiEnsureContractAvailable(aiManager) # ""
             THEN AttThrow(c, aiEnsureContractAvailable(aiManager))
           ELSE IF ensureWriteClient(aiManager) # ""
             THEN AttThrow(c, ensureWriteClient(aiManager))
           ELSE [c EXCEPT !.pc = "ai_write"]
  /\ UNCHANGED aiManager
  /\ AIFrame

\* writeContract of enableAIVerification, disableAIVerification or resumeVault; the
\* error is rethrown.
WriteAIContract(ok) ==
  /\ aiCall.status = "running" /\ aiCall.pc = "ai_write"
  /\ aiCall' = IF ok THEN [AttRpc(aiCall) EXCEPT !.pc = "ai_receipt"]
               ELSE AttThrow(AttRpc(aiCall), "RPC call failed")
  /\ UNCHANGED aiManager
  /\ AIFrame

\* waitForTransactionReceipt: true for a receipt with status 'success', false for
\* any other receipt.
WaitForAIReceipt(outcome) ==
  /\ aiCall.status = "running" /\ aiCall.pc = "ai_receipt"
  /\ aiCall' =
       IF outcome = "failed" THEN AttThrow(AttRpc(aiCall), "RPC call failed")
       ELSE [AttRpc(aiCall) EXCEPT !.status = "returned", !.pc = "done",
               !.ret = IF outcome = "success" THEN "true" ELSE "false"]
  /\ UNCHANGED aiManager
  /\ AIFrame

\* The read operations up to their first await.
StartAIRead(op) ==
  /\ aiCall.status = "idle"
  /\ aiCall' =
       LET c == [IdleAICall EXCEPT !.op = op, !.status = "running"]
       IN  IF aiEnsureContractAvailable(aiManager) # ""
             THEN AttThrow(c, aiEnsureContractAvailable(aiManager))
           ELSE IF ensureClient(aiManager) # ""
             THEN AttThrow(c, ensureClient(aiManager))
           ELSE [c EXCEPT !.pc = "ai_read"]
  /\ UNCHANGED aiManager
  /\ AIFrame

\* The contract read of a read operation (getThresholds: its three reads under one
\* Promise.all); the operation returns what it computes from the answer. state
\* is the contract's answer to getVaultAIState, from which getRecommendations
\* builds its list.
ReadAIContract(ok, state) ==
  /\ aiCall.status = "running" /\ aiCall.pc = "ai_read"
  /\ (~ok \/ aiCall.op \notin AIStateOps) => state = ZeroAIState
  /\ aiCall' =
       LET c == IF aiCall.op = "getThresholds" THEN AttRpc(AttRpc(AttRpc(aiCall)))
                ELSE AttRpc(aiCall)
       IN  IF ok
             THEN [c EXCEPT !.status = "returned", !.pc = "done", !.ret = "answer",
                     !.state = state,
                     !.recommendations = IF c.op = "getRecommendations"
                                           THEN getRecommendations(state) ELSE << >>]
           ELSE AttThrow(c, "RPC call failed")
  /\ UNCHANGED aiManager
  /\ AIFrame

\* The caller has taken the outcome of a finished call.
FinishAICall ==
  /\ aiCall.status \in {"returned", "threw"}
  /\ aiCall' = IdleAICall
  /\ UNCHANGED aiManager
  /\ AIFrame

\* Every operation of both classes, one call at a time on each object.
NextGuard ==
  \/ Tick
  \/ SubmitAttestation
  \/ \E ok \in BOOLEAN : WriteRequestAttestation(ok)
  \/ \E outcome \in ReceiptOutcomes : WaitForAttestationReceipt(outcome)
  \/ \E op \in {"getAttestationStatus", "verifyAttestation"}, requestId \in RequestIdInputs :
       StartAttestationRead(op, requestId)
  \/ \E ok \in BOOLEAN : ReadAttestationRequest(ok)
  \/ \E ok \in BOOLEAN, reached \in BOOLEAN, result \in BOOLEAN :
       ReadCheckConsensus(ok, reached, result)
  \/ \E op \in AttestationWriteOps : StartAttestationWrite(op)
  \/ \E ok \in BOOLEAN : WriteAttestationContract(ok)
  \/ \E outcome \in ReceiptOutcomes : WaitForAgentReceipt(outcome)
  \/ \E op \in AttestationQueryOps : StartAttestationQuery(op)
  \/ \E ok \in BOOLEAN : ReadAttestationContract(ok)
  \/ FinishAttestationCall
  \/ \E op \in AIWriteOps : StartAIWrite(op)
  \/ \E ok \in BOOLEAN : WriteAIContract(ok)
  \/ \E outcome \in ReceiptOutcomes : WaitForAIReceipt(outcome)
  \/ \E op \in AIReadOps : StartAIRead(op)
  \/ \E ok \in BOOLEAN : ReadAIContract(ok, ZeroAIState)
  \/ FinishAICall

\* The AIVaultManager operations, with the AI states the contract can answer.
NextAI ==
  \/ \E op \in AIWriteOps : StartAIWrite(op)
  \/ \E ok \in BOOLEAN : WriteAIContract(ok)
  \/ \E outcome \in ReceiptOutcomes : WaitForAIReceipt(outcome)
  \/ \E op \in AIReadOps : StartAIRead(op)
  \/ \E ok \in BOOLEAN, state \in VaultAIStates \cup {ZeroAIState} :
       ReadAIContract(ok, state)
  \/ FinishAICall

(***************************************************************************)
(* attestation/index.ts: StorageClient                                     *)
(*                                                                         *)
(* A content id is kept as its first three characters, its length and      *)
(* whether all its characters are of [a-zA-Z0-9_-]: what detectProvider    *)
(* looks at. A character stands for itself; "x" stands for any letter or   *)
(* digit other than Q, m, b, a, k, j, z, and "_" for "_" and "-".          *)
(***************************************************************************)
StorageProviders == {"ipfs", "arweave", "ceramic"}

\* The alphabet of generateMockCid and generateMockStreamId, and the alphabet of
\* generateMockArweaveTxId.
AlnumChars == {"Q", "m", "b", "a", "k", "j", "z", "x"}

Base64UrlChars == AlnumChars \cup {"_"}

\* The leading characters Math.random draws in the runs considered.
RandomHeads ==
  {<<"Q", "m", "x">>, <<"b", "a", "x">>, <<"k", "j", "z">>, <<"x", "x", "x">>,
   <<"_", "x", "x">>, <<"Q", "x", "m">>}

NoCid == [head |-> << >>, len |-> 0, charsOk |-> TRUE]

\* prefix + s, for a prefix of at most three characters.
Prepend(prefix, s) ==
  [head |-> SubSeq(prefix \o s.head, 1, 3), len |-> Len(prefix) + s.len, charsOk |-> s.charsOk]

\* cid.startsWith(prefix)
StartsWith(cid, prefix) ==
  /\ Len(prefix) <= Len(cid.head)
  /\ \A i \in 1..Len(prefix) : cid.head[i] = prefix[i]

\* generateMockCid(): 44 characters of the alphanumeric alphabet.
generateMockCid ==
  {[head |-> h, len |-> 44, charsOk |-> TRUE] :
     h \in {g \in RandomHeads : \A i \in 1..3 : g[i] \in AlnumChars}}

\* generateMockArweaveTxId(): 43 characters of the alphabet with "_" and "-".
generateMockArweaveTxId ==
  {[head |-> h, len |-> 43, charsOk |-> TRUE] :
     h \in {g \in RandomHeads : \A i \in 1..3 : g[i] \in Base64UrlChars}}

\* generateMockStreamId(): 'kjzl6cwe1jw' and 50 alphanumeric characters.
generateMockStreamId ==
  {[head |-> <<"k", "j", "z">>, len |-> 11 + s.len, charsOk |-> TRUE] :
     s \in {[head |-> h, len |-> 50] :
              h \in {g \in RandomHeads : \A i \in 1..3 : g[i] \in AlnumChars}}}

\* The mock id each upload function makes.
MockIds(provider) ==
  IF provider = "ipfs" THEN {Prepend(<<"Q", "m">>, c) : c \in generateMockCid}
  ELSE IF provider = "arweave" THEN generateMockArweaveTxId
  ELSE generateMockStreamId

\* The ids the services answer with: Pinata's IpfsHash (CID v0 or v1), an Arweave
\* transaction id (43 characters of base64url), a Ceramic stream id.
ServerIds(provider) ==
  IF provider = "ipfs"
    THEN {[head |-> <<"Q", "m", "x">>, len |-> 46, charsOk |-> TRUE],
          [head |-> <<"b", "a", "x">>, len |-> 59, charsOk |-> TRUE]}
  ELSE IF provider = "arweave"
    THEN {[head |-> h, len |-> 43, charsOk |-> TRUE] : h \in RandomHeads}
  ELSE {[head |-> <<"k", "j", "z">>, len |-> 63, charsOk |-> TRUE]}

\* detectProvider
detectProvider(cid) ==
  IF StartsWith(cid, <<"Q", "m">>) \/ StartsWith(cid, <<"b", "a">>) THEN "ipfs"
  ELSE IF cid.len = 43 /\ cid.charsOk THEN "arweave"
  ELSE IF StartsWith(cid, <<"k", "j", "z">>) THEN "ceramic"
  ELSE "ipfs"

\* new StorageClient(config): provider defaults to 'ipfs'; a credential is kept as
\* whether it is set.
NewStorageClient(provider, ipfsApiKey, arweaveKey, ceramicDid) ==
  [provider |-> IF TruthyStr(provider) THEN provider ELSE "ipfs",
   ipfsApiKey |-> ipfsApiKey, arweaveKey |-> arweaveKey, ceramicDid |-> ceramicDid]

StorageConfigs ==
  {NewStorageClient(p, k1, k2, k3) :
     p \in StorageProviders \cup {Undefined}, k1 \in BOOLEAN, k2 \in BOOLEAN, k3 \in BOOLEAN}

\* The credential an upload function tests before it sends anything.
HasCredential(config, provider) ==
  IF provider = "ipfs" THEN config.ipfsApiKey
  ELSE IF provider = "arweave" THEN config.arweaveKey
  ELSE config.ceramicDid

NoUpload == [provider |-> "none", cid |-> NoCid, mock |-> FALSE]

\* The UploadResult of a provider for an id (url, size and timestamp follow from the
\* id, the data and the clock, and are left out); mock tells a made-up id.
UploadResult(provider, cid, mock) == [provider |-> provider, cid |-> cid, mock |-> mock]

IdleStCall ==
  [op |-> "none", pc |-> "idle", status |-> "idle", error |-> "", target |-> "none",
   http |-> "none", hint |-> Undefined, cid |-> NoCid, result |-> NoUpload]

StorageFresh == stCall = IdleStCall /\ uploaded = NoUpload

InitStorage == storageConfig \in StorageConfigs /\ StorageFresh

\* The StorageClient variables in the specifications of the other subsystems.
StorageIdle == storageConfig = NewStorageClient(Undefined, FALSE, FALSE, FALSE) /\ StorageFresh

UploadOps == {"upload", "uploadToIPFS", "uploadToArweave", "uploadToCeramic"}

DataTypes == {"string", "Uint8Array", "object"}

\* The upload function an operation reaches: upload() switches on defaultProvider.
UploadTarget(config, op) ==
  IF op = "uploadToIPFS" THEN "ipfs"
  ELSE IF op = "uploadToArweave" THEN "arweave"
  ELSE IF op = "uploadToCeramic" THEN "ceramic"
  ELSE config.provider

StThrow(c, message) == [c EXCEPT !.status = "threw", !.error = message, !.pc = "done"]

StReturn(c, result) == [c EXCEPT !.status = "returned", !.result = result, !.pc = "done"]

\* upload / uploadToIPFS / uploadToArweave / uploadToCeramic up to the fetch: upload()
\* refuses non-object data for Ceramic; without the credential the function returns
\* a mock result at once.
StartUpload(op, dataType, mockId) ==
  /\ stCall.status = "idle"
  /\ op = "uploadToCeramic" => dataType = "object"
  /\ LET target == UploadTarget(storageConfig, op)
         c == [IdleStCall EXCEPT !.op = op, !.status = "running", !.target = target]
     IN  /\ mockId \in MockIds(target)
         /\ stCall' =
              IF op = "upload" /\ target = "ceramic" /\ dataType # "object"
                THEN StThrow(c, "Ceramic requires object data. Use uploadToIPFS for binary data.")
              ELSE IF ~HasCredential(storageConfig, target)
                THEN StReturn(c, UploadResult(target, mockId, TRUE))
              ELSE [c EXCEPT !.pc = "upload_fetch"]
  /\ UNCHANGED <<storageConfig, uploaded>>
  /\ StorageFrame

\* What a fetch comes to: the request fails, the answer is not OK, the answer is OK.
HttpOutcomes == {"rejected", "notOk", "ok"}

\* The fetch of an upload and what follows it: the id of an OK answer is returned;
\* uploadToIPFS rethrows an error, uploadToArweave and uploadToCeramic return a mock
\* result in its place.
FetchUpload(outcome, serverId, mockId) ==
  /\ stCall.status = "running" /\ stCall.pc = "upload_fetch"
  /\ serverId \in ServerIds(stCall.target) /\ mockId \in MockIds(stCall.target)
  /\ LET c == [stCall EXCEPT !.http = outcome]
     IN  stCall' =
           IF outcome = "ok" THEN StReturn(c, UploadResult(c.target, serverId, FALSE))
           ELSE IF c.target = "ipfs"
             THEN StThrow(c, IF outcome = "notOk" THEN "IPFS upload failed" ELSE "fetch failed")
           ELSE StReturn(c, UploadResult(c.target, mockId, TRUE))
  /\ UNCHANGED <<storageConfig, uploaded>>
  /\ StorageFrame

\* retrieve(cid, provider?) up to the fetch: the provider is the hint, or detected.
StartRetrieve(cid, hint) ==
  /\ stCall.status = "idle"
  /\ cid # NoCid
  /\ stCall' = [IdleStCall EXCEPT !.op = "retrieve", !.status = "running", !.cid = cid,
                  !.hint = hint, !.pc = "retrieve_fetch",
                  !.target = IF TruthyStr(hint) THEN hint ELSE detectProvider(cid)]
  /\ UNCHANGED <<storageConfig, uploaded>>
  /\ StorageFrame

\* retrieveFromIPFS / retrieveFromArweave / retrieveFromCeramic: the fetch from the
\* provider's gateway; an error is rethrown.
FetchRetrieve(outcome) ==
  /\ stCall.status = "running" /\ stCall.pc = "retrieve_fetch"
  /\ LET c == [stCall EXCEPT !.http = outcome]
     IN  stCall' =
           IF outcome = "ok" THEN StReturn(c, UploadResult(c.target, c.cid, FALSE))
           ELSE StThrow(c, IF outcome = "notOk" THEN "retrieval failed" ELSE "fetch failed")
  /\ UNCHANGED <<storageConfig, uploaded>>
  /\ StorageFrame

\* The caller has taken the outcome of a finished call, and keeps an UploadResult.
FinishStorageCall ==
  /\ stCall.status \in {"returned", "threw"}
  /\ stCall' = IdleStCall
  /\ uploaded' = IF stCall.op \in UploadOps /\ stCall.status = "returned"
                   THEN stCall.result ELSE uploaded
  /\ UNCHANGED storageConfig
  /\ StorageFrame

\* All the ids an upload can come back with.
AllIds == UNION {MockIds(p) \cup ServerIds(p) : p \in StorageProviders}

NextStorage ==
  \/ \E op \in UploadOps, dataType \in DataTypes, mockId \in AllIds :
       StartUpload(op, dataType, mockId)
  \/ \E outcome \in HttpOutcomes, serverId \in AllIds, mockId \in AllIds :
       FetchUpload(outcome, serverId, mockId)
  \/ \E hint \in StorageProviders \cup {Undefined} : StartRetrieve(uploaded.cid, hint)
  \/ \E outcome \in HttpOutcomes : FetchRetrieve(outcome)
  \/ FinishStorageCall

(***************************************************************************)
(* utils/events.ts: EventMonitor                                           *)
(***************************************************************************)
MaxSockets == 2

\* Bound: the unsubscribe functions callers hold at one time.
MaxSubscriptions == 2

\* The key subscribeAll registers under.
AllKey == "*"

\* The vault ids callers subscribe to and servers send events for.
EventVaultIds == {"v1", "v2", AllKey}

SubscribeKeys == {"v1", AllKey}

\* The callbacks callers register: cbA returns, cbT throws.
Callbacks == {"cbA", "cbT"}

Throws(cb) == cb = "cbT"

InSeq(x, s) == \E i \in 1..Len(s) : s[i] = x

\* Set.add: insertion order, no duplicates.
SetAdd(s, x) == IF InSeq(x, s) THEN s ELSE Append(s, x)

\* Set.delete
SetDelete(s, x) == SelectSeq(s, LAMBDA y : y # x)

\* EventMonitor.subscribe(vaultId, callback): the listeners afterwards.
subscribe(ls, vaultId, callback) ==
  LET had == IF vaultId \in DOMAIN ls THEN ls[vaultId] ELSE << >>
  IN  MapSet(ls, vaultId, SetAdd(had, callback))

\* The unsubscribe function subscribe(vaultId, callback) returned: the listeners
\* after a call of it.
unsubscribe(ls, vaultId, callback) ==
  IF vaultId \notin DOMAIN ls THEN ls
  ELSE LET rest == SetDelete(ls[vaultId], callback)
       IN  IF Len(rest) = 0 THEN MapDelete(ls, vaultId) ELSE MapSet(ls, vaultId, rest)

\* forEach(callback => callback(event)) over the callbacks cs, begun with the outcome
\* so far: a callback that throws ends the loop and everything after it.
RECURSIVE InvokeEach(_, _)
InvokeEach(cs, sofar) ==
  IF sofar.threw \/ Len(cs) = 0 THEN sofar
  ELSE InvokeEach(Tail(cs),
         [invoked |-> Append(sofar.invoked, Head(cs)), threw |-> Throws(Head(cs))])

\* emitEvent(event): the vault's listeners, then the global listeners.
emitEvent(ls, vaultId) ==
  LET vaultListeners == IF vaultId \in DOMAIN ls THEN ls[vaultId] ELSE << >>
      globalListeners == IF AllKey \in DOMAIN ls THEN ls[AllKey] ELSE << >>
      first == InvokeEach(vaultListeners, [invoked |-> << >>, threw |-> FALSE])
  IN  InvokeEach(globalListeners, first)

\* onmessage: JSON.parse, then emitEvent, both inside try/catch.
onmessage(ls, vaultId, parses) ==
  IF parses THEN emitEvent(ls, vaultId) ELSE [invoked |-> << >>, threw |-> TRUE]

NoEvStep == [op |-> "none", vaultId |-> "", callback |-> "", deliveries |-> << >>]

MonitorFresh ==
  /\ listeners = EmptyMap
  /\ wsConnection = "null"
  /\ sockets = 0
  /\ subscribed = {}
  /\ subscriptions = << >>
  /\ evLast = NoEvStep

InitMonitor == MonitorFresh

\* The monitor's variables in the specifications of the other subsystems.
MonitorIdle == MonitorFresh

\* connect(): a new WebSocket replaces wsConnection; it opens, or errors and rejects.
Connect(opens) ==
  /\ opens => sockets < MaxSockets
  /\ wsConnection' = IF opens THEN "open" ELSE "failed"
  /\ sockets' = IF opens THEN sockets + 1 ELSE sockets
  /\ evLast' = [NoEvStep EXCEPT !.op = "connect"]
  /\ UNCHANGED <<listeners, subscribed, subscriptions>>
  /\ MonitorFrame

\* disconnect(): closes the socket wsConnection holds and clears the listeners.
Disconnect ==
  /\ wsConnection' = "null"
  /\ sockets' = IF wsConnection = "open" THEN sockets - 1 ELSE sockets
  /\ listeners' = EmptyMap
  /\ subscribed' = {}
  /\ subscriptions' = [h \in DOMAIN subscriptions |-> [subscriptions[h] EXCEPT !.live = FALSE]]
  /\ evLast' = [NoEvStep EXCEPT !.op = "disconnect"]
  /\ MonitorFrame

\* subscribe(vaultId, callback), also through subscribeAll(callback); the caller
\* keeps the unsubscribe function it returns.
Subscribe(vaultId, callback) ==
  /\ Len(subscriptions) < MaxSubscriptions
  /\ listeners' = subscribe(listeners, vaultId, callback)
  /\ subscribed' = subscribed \cup {<<vaultId, callback>>}
  /\ subscriptions' =
       Append(subscriptions, [vaultId |-> vaultId, callback |-> callback, live |-> TRUE])
  /\ evLast' = [NoEvStep EXCEPT !.op = "subscribe", !.vaultId = vaultId,
                                !.callback = callback]
  /\ UNCHANGED <<wsConnection, sockets>>
  /\ MonitorFrame

\* A sequence without its h-th element.
RemoveAt(s, h) == [i \in 1..(Len(s) - 1) |-> IF i < h THEN s[i] ELSE s[i + 1]]

\* A call of the unsubscribe function the h-th subscribe call held returned; the
\* caller then drops the function or keeps it (it can be called again).
Unsubscribe(h, drop) ==
  /\ h \in DOMAIN subscriptions
  /\ LET vaultId == subscriptions[h].vaultId
         callback == subscriptions[h].callback
     IN  /\ listeners' = unsubscribe(listeners, vaultId, callback)
         /\ subscribed' = subscribed \ {<<vaultId, callback>>}
         /\ evLast' = [NoEvStep EXCEPT !.op = "unsubscribe", !.vaultId = vaultId,
                                       !.callback = callback]
  /\ subscriptions' = IF drop THEN RemoveAt(subscriptions, h)
                      ELSE [subscriptions EXCEPT ![h].live = FALSE]
  /\ UNCHANGED <<wsConnection, sockets>>
  /\ MonitorFrame

\* The server sends one message: every open socket of the monitor runs onmessage.
IncomingMessage(vaultId, parses) ==
  /\ sockets > 0
  /\ evLast' = [NoEvStep EXCEPT !.op = IF parses THEN "event" ELSE "garbage",
                  !.vaultId = vaultId,
                  !.deliveries = [i \in 1..sockets |-> onmessage(listeners, vaultId, parses)]]
  /\ UNCHANGED <<listeners, wsConnection, sockets, subscribed, subscriptions>>
  /\ MonitorFrame

NextMonitor ==
  \/ \E opens \in BOOLEAN : Connect(opens)
  \/ Disconnect
  \/ \E vaultId \in SubscribeKeys, callback \in Callbacks : Subscribe(vaultId, callback)
  \/ \E h \in 1..MaxSubscriptions, drop \in BOOLEAN : Unsubscribe(h, drop)
  \/ \E vaultId \in EventVaultIds, parses \in BOOLEAN : IncomingMessage(vaultId, parses)

(***************************************************************************)
(* Specifications                                                          *)
(***************************************************************************)
\* Each specification starts one subsystem and leaves the others as constructed.
Init == InitVault /\ InitClient /\ CrossIdle /\ AttestIdle /\ AIIdle /\ StorageIdle /\ MonitorIdle

InitFactory == InitClient /\ CrossIdle /\ VaultIdle /\ AttestIdle /\ AIIdle /\ StorageIdle /\ MonitorIdle

InitCrossChain == InitCross /\ InitClient /\ VaultIdle /\ AttestIdle /\ AIIdle /\ StorageIdle /\ MonitorIdle

InitAttestation ==
  InitAttest /\ InitClient /\ CrossIdle /\ VaultIdle /\ AIIdle /\ StorageIdle /\ MonitorIdle

\* Both objects over one VaultClient, or both from the legacy constructor.
InitGuard ==
  /\ InitAttest /\ InitAI
  /\ (attestation.client = NoClient /\ aiManager.client = NoClient)
       \/ \E c \in ManagerClients \ {NoClient} :
            /\ attestation \in {NewAttestationClient(c), NewAttestationClient(WithAttestationHub(c))}
            /\ aiManager \in {NewAIVaultManager(c), NewAIVaultManager(WithAIVaultManager(c))}
  /\ InitClient /\ CrossIdle /\ VaultIdle /\ StorageIdle /\ MonitorIdle

InitEvents ==
  InitMonitor /\ InitClient /\ CrossIdle /\ VaultIdle /\ AttestIdle /\ AIIdle /\ StorageIdle

InitStore ==
  InitStorage /\ InitClient /\ CrossIdle /\ VaultIdle /\ AttestIdle /\ AIIdle /\ MonitorIdle

Spec == Init /\ [][Next]_vars

SpecCreate == Init /\ [][NextCreate]_vars

SpecTime == Init /\ [][NextTime]_vars

SpecOwner == Init /\ [][NextOwner]_vars

SpecClient == InitFactory /\ [][NextClient]_vars

SpecCross == InitCrossChain /\ [][NextCross]_vars

SpecAttest == InitAttestation /\ [][NextAttest]_vars

SpecGuard == InitGuard /\ [][NextGuard]_vars

SpecAI == InitGuard /\ [][NextAI]_vars

SpecStorage == InitStore /\ [][NextStorage]_vars

SpecMonitor == InitEvents /\ [][NextMonitor]_vars

(***************************************************************************)
(* Claims about VaultManager and TimeManager                               *)
(***************************************************************************)
\* C1: on a client for which canWrite(client) is false, every write operation of
\* VaultManager and TimeManager throws 'Write operations require a wallet' before it
\* has issued any contract read or contract write.
C1_WalletGuard ==
  \A p \in Calls :
    (/\ call[p].op \in
          {"createVault", "updateVault", "uploadContent", "unlockVault",
           "configureScheduledRelease", "configureDeadmanSwitch",
           "configureHybridRelease", "checkIn", "triggerRelease", "deactivate",
           "setUnlockTime"}
     /\ call[p].client # NoClient
     /\ ~canWrite(call[p].client))
    => /\ call[p].status = "threw"
       /\ call[p].error = "Write operations require a wallet"
       /\ call[p].log = << >>

\* A TimeManager write was refused on a client with an external wallet and no
\* account: the client's canWrite field is true, the guard canWrite(client) false.
C1_Witness ==
  /\ call[1].op \in TimeWriteOps
  /\ call[1].client.canWrite
  /\ ~canWrite(call[1].client)
  /\ call[1].status = "threw"

\* C2: under every interleaving of createVault calls, the id and owner returned to a
\* caller are those of the vault its own transaction created, and no two concurrent
\* createVault calls return the same id.
C2_CreateVaultReturnsOwnId ==
  \A p \in Calls :
    (call[p].op = "createVault" /\ call[p].status = "returned")
    => /\ call[p].ret.vault.id = call[p].created
       /\ call[p].ret.vault.owner = call[p].client.account
       /\ \A q \in Calls \ {p} :
            (call[q].op = "createVault" /\ call[q].status = "returned")
            => call[q].ret.vault.id # call[p].ret.vault.id

\* C3: unlockVault and triggerRelease issue the triggerRelease write only after a
\* checkReleaseCondition read of the same call returned shouldRelease = true; when
\* the read returned false they return false and issue no contract write.
C3_ReleaseGating ==
  \A p \in Calls :
    call[p].op \in {"unlockVault", "triggerRelease"}
    => LET log == call[p].log
           IsReleaseCheck(e, flag) ==
             e.kind = "read" /\ e.fn = "checkReleaseCondition" /\ e.ok /\ e.flag = flag
       IN  /\ \A i \in 1..Len(log) :
                (log[i].kind = "write" /\ log[i].fn = "triggerRelease")
                => \E j \in 1..(i - 1) : IsReleaseCheck(log[j], TRUE)
           /\ (\E j \in 1..Len(log) : IsReleaseCheck(log[j], FALSE))
              => /\ call[p].status = "returned"
                 /\ call[p].ret = RetBool(FALSE)
                 /\ \A i \in 1..Len(log) : log[i].kind # "write"

\* A triggerRelease call that read shouldRelease = true and issued the write.
C3_Witness ==
  /\ call[1].op = "triggerRelease"
  /\ call[1].status = "returned"
  /\ call[1].ret = RetBool(TRUE)
  /\ \E i \in 1..Len(call[1].log) :
       call[1].log[i].kind = "write" /\ call[1].log[i].fn = "triggerRelease"

\* C23: with a write-capable client, checkIn and TimeManager.triggerRelease never
\* throw on a failed contract write: they return true exactly when the write went
\* through and false when it raised, while unlockVault throws on the same failure.
C23_WriteFailureHandling ==
  \A p \in Calls :
    LET c == call[p]
        IsWrite(e) == e.kind = "write" /\ e.fn \in {"recordCheckIn", "triggerRelease"}
        Wrote == Len(c.log) > 0 /\ IsWrite(c.log[Len(c.log)])
    IN  /\ (c.op \in {"checkIn", "triggerRelease"} /\ Wrote)
           => c.status = "returned" /\ c.ret = RetBool(c.log[Len(c.log)].ok)
        /\ (c.op \in {"checkIn", "triggerRelease"} /\ c.ret = RetBool(TRUE)
              /\ c.status = "returned")
           => Wrote /\ c.log[Len(c.log)].ok
        /\ (c.op = "unlockVault" /\ Wrote)
           => IF c.log[Len(c.log)].ok
                THEN c.status = "returned" /\ c.ret = RetBool(TRUE)
                ELSE c.status = "threw"

\* A TimeManager.triggerRelease call whose contract write raised and which
\* returned false.
C23_Witness ==
  /\ call[1].op = "triggerRelease"
  /\ canWrite(call[1].client)
  /\ call[1].status = "returned"
  /\ call[1].ret = RetBool(FALSE)
  /\ Len(call[1].log) > 0
  /\ call[1].log[Len(call[1].log)].fn = "triggerRelease"
  /\ ~call[1].log[Len(call[1].log)].ok

\* C7: a successful updateVault(vaultId, updates) call has issued a contract write.
C7_UpdateVaultWrites ==
  \A p \in Calls :
    (call[p].op = "updateVault" /\ call[p].status = "returned")
    => \E i \in 1..Len(call[p].log) : call[p].log[i].kind = "write"

\* C18: with a client present getVault never throws; it returns null when the vault
\* read fails (a vaultId that is no numeric string included) or the vault's active
\* flag is false, and otherwise the vault, with default time fields when the
\* TimeManager read fails; and getVaultsByOwner returns exactly the owner's active
\* vaults, in the order of the ids the contract returned.
C18_GetVaultOrNull ==
  LET c == call[1]
      readOk == Len(c.log) >= 1 /\ c.log[1].ok
      data == ReadVaultsView(vaults, c.ref.n)
  IN  /\ (c.op = "getVault" /\ c.client # NoClient) => c.status # "threw"
      /\ (c.op = "getVault" /\ c.status = "returned")
           => IF ~readOk \/ ~data.isActive THEN c.ret.kind = "null"
              ELSE /\ c.ret.kind = "vault"
                   /\ c.ret.vault.id = c.ref.n /\ c.ret.vault.owner = data.owner
                   /\ ~c.log[2].ok
                        => /\ c.ret.vault.releaseType = "SCHEDULED"
                           /\ c.ret.vault.unlockTime = UndefNum
                           /\ c.ret.vault.checkInPeriod = UndefNum
                           /\ c.ret.vault.lastCheckIn = UndefNum
      /\ (c.op = "getVaultsByOwner" /\ c.status = "returned")
           => [i \in 1..Len(c.ret.list) |-> c.ret.list[i].id]
                = SelectSeq(c.idsRead, LAMBDA id : vaults[id + 1].isActive)

(***************************************************************************)
(* Claims about the time configuration                                     *)
(***************************************************************************)
\* C13: getTimeUntilUnlock returns, by the vault's on-chain release type, the
\* contract's getTimeUntilScheduledRelease value for SCHEDULED, its
\* getTimeUntilDeadmanRelease value for DEADMAN, the minimum of the two for HYBRID
\* and 0 for NONE.
C13_TimeUntilUnlock ==
  (call[1].op = "getTimeUntilUnlock" /\ call[1].status = "returned") =>
    LET log == call[1].log
        releaseType == vaultConfigs[call[1].vaultAddress].releaseType
        Reads(fn) == {i \in 1..Len(log) : log[i].fn = fn /\ log[i].ok}
        LastValue(fn) == log[CHOOSE i \in Reads(fn) : \A j \in Reads(fn) : j <= i].value
        scheduled == LastValue("getTimeUntilScheduledRelease")
        deadman == LastValue("getTimeUntilDeadmanRelease")
    IN  /\ call[1].ret.kind = "num"
        /\ call[1].ret.num =
             IF releaseType = ReleaseTypeContract_SCHEDULED THEN scheduled
             ELSE IF releaseType = ReleaseTypeContract_DEADMAN THEN deadman
             ELSE IF releaseType = ReleaseTypeContract_HYBRID
               THEN (IF scheduled <= deadman THEN scheduled ELSE deadman)
             ELSE 0

\* A hybrid vault whose deadman release comes first: the deadman value is returned.
C13_Witness ==
  /\ call[1].op = "getTimeUntilUnlock"
  /\ call[1].status = "returned"
  /\ vaultConfigs[call[1].vaultAddress].releaseType = ReleaseTypeContract_HYBRID
  /\ call[1].ret.num = 5
  /\ call[1].deadmanRemaining = 5
  /\ call[1].log[Len(call[1].log)].value = 9

C20_HybridFromConfig ==
  (call[1].op = "configureHybridRelease"
     /\ call[1].config.unlockTime >= 0 /\ call[1].config.checkInPeriod >= 0)
  => \A i \in 1..Len(call[1].log) :
       (call[1].log[i].kind = "write" /\ call[1].log[i].fn = "configureTime")
       => /\ call[1].log[i].args.releaseType = ReleaseTypeContract_HYBRID
          /\ call[1].log[i].args.scheduledTime = call[1].config.unlockTime \div 1000
          /\ call[1].log[i].args.deadmanDuration = call[1].config.checkInPeriod

\* C21: the releaseType of the VaultConfig createVault returns is the release type
\* createVault configured for the new vault on the time-lock contract, whatever
\* time fields the input configuration carries.
C21_ReturnedReleaseTypeConfigured ==
  (call[1].op = "createVault" /\ call[1].status = "returned")
  => vaultConfigs[call[1].vaultData.vaultAddress].releaseType
       = ReleaseTypeEnum(call[1].ret.vault.releaseType)

\* C22: every configureTime write with a non-zero deadman duration, whichever
\* operation issues it, carries at least the minimum of 86,400 seconds.
C22_DeadmanDurationAtLeastMinimum ==
  \A i \in 1..Len(call[1].log) :
    (/\ call[1].log[i].kind = "write"
     /\ call[1].log[i].fn = "configureTime"
     /\ call[1].log[i].args.deadmanDuration # 0)
    => call[1].log[i].args.deadmanDuration >= MinDeadmanDuration

(***************************************************************************)
(* Claims about AttestationClient                                          *)
(***************************************************************************)
\* C6: the id a successful submitAttestation returns is the id the AttestationHub
\* assigned to the request, so a status query with it finds the request just submitted.
C6_ReturnsAssignedRequestId ==
  (attCall.op = "submitAttestation" /\ attCall.status = "returned")
  => /\ attCall.ret.id = attCall.assigned
     /\ getAttestationRequest(hubRequests, attCall.ret.id).requestId = attCall.assigned

(***************************************************************************)
(* Claims about the contract-availability guards                           *)
(***************************************************************************)
\* C15: when the AttestationHub (resp. AIVaultManager) address is absent or the zero
\* address, every AttestationClient (resp. AIVaultManager) operation throws the
\* 'contract not deployed on this network' error, having issued no RPC call, whatever
\* the client's wallet; and every client createVaultClient returns gives both classes
\* the zero address, no chain configuration defining either address.
C15_ContractGuard ==
  /\ (/\ attCall.status # "idle"
      /\ ~TruthyStr(attestation.contractAddress) \/ attestation.contractAddress = ZERO_ADDRESS)
       => /\ attCall.status = "threw"
          /\ attCall.error = "AttestationHub contract not deployed on this network"
          /\ attCall.rpcs = 0
  /\ (/\ aiCall.status # "idle"
      /\ ~TruthyStr(aiManager.contractAddress) \/ aiManager.contractAddress = ZERO_ADDRESS)
       => /\ aiCall.status = "threw"
          /\ aiCall.error = "AIVaultManager contract not deployed on this network"
          /\ aiCall.rpcs = 0
  /\ \A config \in VaultClientConfig :
       createVaultClient(config).error = ""
         => /\ NewAttestationClient(createVaultClient(config).client).contractAddress
                 = ZERO_ADDRESS
            /\ NewAIVaultManager(createVaultClient(config).client).contractAddress
                 = ZERO_ADDRESS

\* A transaction-sending operation of each class has thrown the contract error, on
\* objects whose client has no wallet.
C15_Witness ==
  /\ attCall.op \in AttestationWriteOps \cup {"submitAttestation"}
  /\ attCall.status = "threw"
  /\ attCall.error = "AttestationHub contract not deployed on this network"
  /\ attestation.client # NoClient /\ ~canWrite(attestation.client)
  /\ aiCall.op \in AIWriteOps
  /\ aiCall.status = "threw"
  /\ aiCall.error = "AIVaultManager contract not deployed on this network"
  /\ aiManager.client # NoClient /\ ~canWrite(aiManager.client)

\* C24: getRecommendations never returns an empty list; the list is exactly the
\* good-standing recommendation if and only if verification is enabled, the liveness
\* score is at least 5000 basis points, the risk score at most 7000, the vault is not
\* paused by AI and at least one AI check was made; a risk score above 9000 basis
\* points yields both the high-risk and the critical-risk recommendation.
C24_Recommendations ==
  (aiCall.op = "getRecommendations" /\ aiCall.status = "returned")
  => LET state == aiCall.state
         r == aiCall.recommendations
     IN  /\ Len(r) > 0
         /\ (r = <<RecGoodStanding>>)
              <=> (/\ state.aiVerificationEnabled
                   /\ state.livenessScore >= 5000
                   /\ state.riskScore <= 7000
                   /\ ~state.isPausedByAI
                   /\ state.aiCheckCount > 0)
         /\ state.riskScore > 9000
              => /\ \E i \in 1..Len(r) : r[i] = RecHighRisk
                 /\ \E i \in 1..Len(r) : r[i] = RecCriticalRisk

\* getRecommendations has returned the good-standing list for a vault at the
\* liveness and risk thresholds.
C24_Witness ==
  /\ aiCall.op = "getRecommendations"
  /\ aiCall.status = "returned"
  /\ aiCall.state.livenessScore = 5000
  /\ aiCall.state.riskScore = 7000
  /\ aiCall.recommendations = <<RecGoodStanding>>

(***************************************************************************)
(* Claims about StorageClient                                              *)
(***************************************************************************)
\* C16: each of uploadToIPFS, uploadToArweave and uploadToCeramic returns a mock
\* UploadResult, and does not throw, whenever its credential is missing or its HTTP
\* request fails or is answered with a status that is not OK.
C16_MockFallback ==
  (/\ stCall.op \in {"uploadToIPFS", "uploadToArweave", "uploadToCeramic"}
   /\ stCall.pc = "done"
   /\ ~HasCredential(storageConfig, stCall.target) \/ stCall.http \in {"rejected", "notOk"})
    => stCall.status = "returned" /\ stCall.result.mock

\* C17: for every UploadResult r an upload has returned, mock results included,
\* retrieve(r.cid) without a provider hint fetches from the provider r.provider.
C17_RetrieveFromUploader ==
  (/\ stCall.op = "retrieve"
   /\ ~TruthyStr(stCall.hint)
   /\ uploaded # NoUpload /\ stCall.cid = uploaded.cid)
    => stCall.target = uploaded.provider

(***************************************************************************)
(* Claims about EventMonitor                                               *)
(***************************************************************************)
\* C11: an incoming event with vaultId V invokes a callback cb if and only if cb is
\* currently subscribed to V or to all events; in particular a callback whose
\* unsubscribe function was called is not invoked again until it is subscribed again.
C11_DeliveryIffSubscribed ==
  evLast.op = "event" =>
    \A i \in 1..Len(evLast.deliveries), cb \in Callbacks :
      InSeq(cb, evLast.deliveries[i].invoked)
      <=> (<<evLast.vaultId, cb>> \in subscribed \/ <<AllKey, cb>> \in subscribed)

\* C12: every incoming event, whatever its vaultId, invokes each callback registered
\* through subscribeAll exactly once.
C12_SubscribeAllOnce ==
  evLast.op = "event" =>
    \A i \in 1..Len(evLast.deliveries), cb \in Callbacks :
      <<AllKey, cb>> \in subscribed
      => Cardinality({n \in 1..Len(evLast.deliveries[i].invoked) :
                        evLast.deliveries[i].invoked[n] = cb}) = 1

\* C27: an unsubscribe function removes only its own subscription: every
\* subscription made since the last disconnect() whose own unsubscribe function has
\* not been called still has its callback registered for its vault id.
C27_UnsubscribeOwnOnly ==
  \A h \in DOMAIN subscriptions :
    subscriptions[h].live
    => /\ subscriptions[h].vaultId \in DOMAIN listeners
       /\ InSeq(subscriptions[h].callback, listeners[subscriptions[h].vaultId])

\* C28: the monitor holds at most one open WebSocket, each incoming message is
\* dispatched once, and after disconnect() no connection of the monitor is open.
C28_SingleConnection ==
  /\ sockets <= 1
  /\ evLast.op \in {"event", "garbage"} => Len(evLast.deliveries) = 1
  /\ wsConnection = "null" => sockets = 0

\* C29: when a callback throws during an event, every other callback registered
\* for the event's vault id or for all events is still invoked.
C29_CallbackIsolation ==
  evLast.op = "event" =>
    \A i \in 1..Len(evLast.deliveries), cb \in Callbacks :
      (\/ evLast.vaultId \in DOMAIN listeners /\ InSeq(cb, listeners[evLast.vaultId])
       \/ AllKey \in DOMAIN listeners /\ InSeq(cb, listeners[AllKey]))
      => InSeq(cb, evLast.deliveries[i].invoked)

(***************************************************************************)
(* Claims about the client factory                                         *)
(***************************************************************************)
\* C4 (as stated): createVaultClient returns a client for every chain ID of
\* SUPPORTED_CHAIN_IDS and throws 'Unsupported chain ID' for every other chain ID.
C4_SupportedChainsGetClient ==
  factoryCall.called =>
    IF factoryCall.config.chainId \in SUPPORTED_CHAIN_IDS
      THEN factoryCall.error = ""
      ELSE factoryCall.error = "Unsupported chain ID"

\* C5 (as stated): a client made with a privateKey or an external walletClient can
\* sign (canWrite(client) and the canWrite field are true), a client made with neither
\* is read-only, and the field and the guard agree on every returned client.
C5_WalletModesAgree ==
  (factoryCall.called /\ factoryCall.error = "") =>
    LET cfg == factoryCall.config
        client == factoryCall.client
    IN  /\ (cfg.privateKey # Undefined \/ cfg.walletClient # Undefined)
             => (canWrite(client) /\ client.canWrite)
        /\ (cfg.privateKey = Undefined /\ cfg.walletClient = Undefined)
             => (/\ client.walletClient = Undefined
                 /\ client.account = Undefined
                 /\ ~client.canWrite)
        /\ client.canWrite = canWrite(client)
\* C19: for the chain ID of every configuration, getContractAddresses returns
\* undefined when the chain has no configured contracts (999 for one) and the
\* configured record otherwise, and hasDeployedContracts is true exactly when
\* getContractAddresses is defined and its VaultManager is not the zero address.
C19_ContractAddresses ==
  factoryCall.called =>
    LET chainId == factoryCall.config.chainId
        addresses == getContractAddresses(chainId)
    IN  /\ chainId \notin {97, 204, 5611} => addresses = NoContracts
        /\ chainId = 97 => addresses = BSC_TESTNET_CONTRACTS
        /\ chainId = 204 => addresses = OPBNB_MAINNET_CONTRACTS
        /\ chainId = 5611 => addresses = OPBNB_TESTNET_CONTRACTS
        /\ hasDeployedContracts(chainId)
             = (addresses # NoContracts /\ addresses.VaultManager # ZERO_ADDRESS)

\* A configuration for a chain whose contracts are configured with the zero address
\* as VaultManager: getContractAddresses is defined, hasDeployedContracts is false.
C19_Witness ==
  /\ factoryCall.called
  /\ getContractAddresses(factoryCall.config.chainId) # NoContracts
  /\ getContractAddresses(factoryCall.config.chainId).VaultManager = ZERO_ADDRESS
  /\ ~hasDeployedContracts(factoryCall.config.chainId)

(***************************************************************************)
(* Claims about CrossChainClient                                           *)
(***************************************************************************)
\* C8 (as stated): for every id sendMessage has returned, getMessageStatus(id) is
\* {sent: true, received: false, processed: false} until clearPendingMessage(id) is
\* called, and afterwards, as for an id never returned, it is the 'Message not found'
\* status.
C8_MessageLifecycle ==
  /\ \A id \in ccReturned :
       LET st == getMessageStatus(pendingMessages, id)
       IN  IF id \notin ccCleared
             THEN st.sent /\ ~st.received /\ ~st.processed
             ELSE st = NotFoundStatus
  /\ getMessageStatus(pendingMessages, UnknownId) = NotFoundStatus

\* C25: the pending ids are exactly the ids successful sendMessage calls returned
\* (those inside syncVault included) less the ids passed to clearPendingMessage, and
\* every stored status has sent = true, received = false, processed = false.
C25_PendingInvariant ==
  /\ getPendingMessages(pendingMessages) = ccReturned \ ccCleared
  /\ \A id \in DOMAIN pendingMessages :
       /\ pendingMessages[id].status.sent
       /\ ~pendingMessages[id].status.received
       /\ ~pendingMessages[id].status.processed

\* C26: the id a successful sendMessage returns (inside syncVault too) differs from
\* every id pending before the call, and the call adds exactly one pending message.
C26_UniqueMessageIds ==
  (ccLast.op \in {"sendMessage", "syncVault"} /\ ccLast.messageId # NoId)
  => /\ ccLast.messageId \notin getPendingMessages(pendingBefore)
     /\ Cardinality(getPendingMessages(pendingMessages))
          = Cardinality(getPendingMessages(pendingBefore)) + 1

\* C9: a sendMessage call whose sourceChain or destChain is not a supported chain
\* throws and leaves the pending messages as it found them; the source chain is
\* validated first, so a message with both chains unsupported gets the source error.
C9_SendRejectsUnsupported ==
  LET m == ccLast.message
  IN  (ccLast.op = "sendMessage"
        /\ (m.sourceChain \notin supportedChains \/ m.destChain \notin supportedChains))
      => /\ ccLast.error # ""
         /\ pendingMessages = pendingBefore
         /\ getPendingMessages(pendingMessages) = getPendingMessages(pendingBefore)
         /\ (m.sourceChain \notin supportedChains
               => ccLast.error = "Source chain is not supported")
         /\ (m.sourceChain \in supportedChains
               => ccLast.error = "Destination chain is not supported")

\* C9 witness: a message with both chains unsupported was rejected with the source
\* error while another message was pending.
C9_Witness ==
  /\ ccLast.op = "sendMessage"
  /\ ccLast.message.sourceChain \notin supportedChains
  /\ ccLast.message.destChain \notin supportedChains
  /\ ccLast.error = "Source chain is not supported"
  /\ pendingBefore # EmptyMap

====
